---- MODULE Spec2Model ----
(***************************************************************************)
(* State-machine model of the aipod pipeline: the run store (db/runs.py),  *)
(* the source store (db/sources.py), the article store (db/articles.py),   *)
(* the ranking engine (ranking/ranker.py, ranking/scorers.py) and the      *)
(* seven-stage orchestrator (pipeline/orchestrator.py).                    *)
(*                                                                         *)
(* Scores are Python floats, computed in IEEE-754 double arithmetic; the    *)
(* weights and thresholds of a configuration are kept as written, in       *)
(* thousandths (One = 1.0), and read as floats where they are used.        *)
(* Timestamps are readings of a logical clock, in hours; the readings of   *)
(* time.time() by the stages are in seconds.  Python strings are strings.  *)
(* The database variables hold the committed rows; the uncommitted writes  *)
(* of the pipeline's transaction are in ctx.pending.  An id is the index   *)
(* of its row; an id a sequence handed out to a statement that was rolled  *)
(* back is not handed out again, and holds a placeholder in the table.     *)
(***************************************************************************)
EXTENDS Integers, Sequences, FiniteSets, TLC

VARIABLES
    runs,          \* table runs: row id = index; [run_date, started_at, finished_at, status, stats_json]
    sources,       \* table sources: row id = index; [name, category, weight, enabled]; an id drawn from the sequence and given to no row holds ConsumedId
    articles,      \* table articles: row id = index; an id drawn from the sequence and given to no row holds ConsumedArticleId
    run_articles,  \* table run_articles: <<run_id, article_id>> -> [included_in_rank, score_json]
    files,         \* the extracted texts on disk: path -> text
    clock,         \* the wall clock read by datetime.now(), in hours
    pc,            \* position of the one pipeline invocation in flight
    cur,           \* index of the local variable `stage` of _execute_pipeline
    stages,        \* PipelineOrchestrator.stages
    run_id,        \* PipelineOrchestrator.run_id
    result,        \* outcome of PipelineOrchestrator.run: none | true | false | raised
    ret,           \* value returned by _execute_pipeline
    params,        \* arguments of run: [run_date, max_items, max_stories]
    ctx,           \* locals handed from stage to stage
    invocations,   \* number of pipeline invocations made so far
    rk,            \* locals and result of the last rank_articles call
    sc,            \* configuration load and score_article call under examination
    report,        \* what the finally block of run wrote: stats file and printed summary
    sessions,      \* database sessions of the callers inside RunManager.create_run
    fetch          \* the asyncio.gather of fetch_all_feeds / fetch_all_articles in progress

vars == <<runs, sources, articles, run_articles, files, clock, pc, cur, stages, run_id,
          result, ret, params, ctx, invocations, rk, sc, report, sessions, fetch>>

dbVars == <<runs, articles, run_articles>>
storeVars == <<sources, files>>
orchVars == <<pc, cur, stages, run_id, result, ret, params, ctx, invocations>>
concVars == <<sessions, fetch>>

----------------------------------------------------------------------------
(* Bounds of the model *)

MaxInvocations == 2
MaxArticles == 3
MaxStories == 3
MaxSources == 2

(* Program constants *)

None == -1
NoneStr == "<None>"
One == 1000
NumStages == 7
recency_weight == 300
source_weight == 200
topic_weight == 300
novelty_weight == 200
DefaultMinScore == 100
HoursPerDay == 24
half_life_hours == 48
title_weight == 2
similarity_threshold == 85
novelty_window_runs == 4
RecentLimit == 200

StageNames == <<"sources", "rss", "articles", "storage", "ranking", "show_notes", "script">>

Dates == {"2024-01-01", "2024-01-02"}

\* str(e) of the exceptions a collaborator raises; an exception built without
\* arguments (asyncio.TimeoutError()) has the empty message.
ErrorMessages == {"collaborator error", ""}

Min(a, b) == IF a <= b THEN a ELSE b
Max(a, b) == IF a >= b THEN a ELSE b

\* Python's s[:k] for an integer k of either sign
PySlice(s, k) ==
    LET n == IF k >= 0 THEN Min(k, Len(s)) ELSE Max(0, Len(s) + k)
    IN  SubSeq(s, 1, n)

RECURSIVE Concat(_)
Concat(ss) == IF ss = <<>> THEN <<>> ELSE Head(ss) \o Concat(Tail(ss))

\* the orderings of a finite set as sequences
Perms(S) ==
    {p \in [1..Cardinality(S) -> S] : \A i, j \in DOMAIN p : i # j => p[i] # p[j]}

\* the elements of a sequence
Range(s) == {s[i] : i \in DOMAIN s}

----------------------------------------------------------------------------
(* Python str operations, on strings of the characters U+0000 to U+00FF *)

\* the characters c with c.lower() != c, and c.lower() of each at the same
\* offset
UpperCase == "ABCDEFGHIJKLMNOPQRSTUVWXYZÀÁÂÃÄÅÆÇÈÉÊËÌÍÎÏÐÑÒÓÔÕÖØÙÚÛÜÝÞ"
LowerCase == "abcdefghijklmnopqrstuvwxyzàáâãäåæçèéêëìíîïðñòóôõöøùúûüýþ"
Digits == "0123456789"

\* the other characters that are alphanumeric (str.isalnum): the letters
\* without an upper-case form here, the superscript digits and the fractions
OtherAlnum == "ª²³µ¹º¼½¾ßÿ"

\* the characters with str.isspace(): tab, line feed, U+000B, form feed,
\* carriage return, U+001C, U+001D, U+001E, U+001F, the blank, U+0085 and
\* U+00A0, in this order
WhiteSpace == "\t\n\f\r  "

\* the character of s at offset p (s[p] in Python, 0 <= p < len(s))
CharAt(s, p) == SubSeq(s, p + 1, p + 1)

\* the characters of a string, as a set
Chars(s) == {CharAt(s, p) : p \in 0..(Len(s) - 1)}

\* the lower-case letter of every upper-case letter
LowerOf ==
    [c \in Chars(UpperCase) |->
        CharAt(LowerCase,
               (CHOOSE p \in 0..(Len(UpperCase) - 1) : CharAt(UpperCase, p) = c))]

\* the characters \w matches in a str pattern: the alphanumeric characters
\* and the underscore
WordChars ==
    Chars(LowerCase) \cup Chars(UpperCase) \cup Chars(Digits) \cup Chars(OtherAlnum)
        \cup {"_"}

\* the characters str.split() separates on
SpaceChars == Chars(WhiteSpace)

\* `sub in s`
Contains(s, sub) ==
    \E i \in 0..(Len(s) - Len(sub)) : SubSeq(s, i + 1, i + Len(sub)) = sub

\* str.lower() of one character
LowerChar(c) == IF c \in DOMAIN LowerOf THEN LowerOf[c] ELSE c

\* str.lower()
RECURSIVE Lower(_)
Lower(s) == IF Len(s) = 0 THEN "" ELSE LowerChar(CharAt(s, 0)) \o Lower(Tail(s))

\* str.isspace() of one character
IsSpace(c) == c \in SpaceChars

\* the words of s from offset p on, `word` being the word under way
RECURSIVE SplitFrom(_, _, _)
SplitFrom(s, p, word) ==
    IF p >= Len(s) THEN (IF word = "" THEN <<>> ELSE <<word>>)
    ELSE IF IsSpace(CharAt(s, p))
         THEN (IF word = "" THEN <<>> ELSE <<word>>) \o SplitFrom(s, p + 1, "")
         ELSE SplitFrom(s, p + 1, word \o CharAt(s, p))

\* str.split(): the runs of non-whitespace characters
Split(s) == SplitFrom(s, 0, "")

\* \w of the regular expressions
IsWordChar(c) == c \in WordChars

\* \b at offset p of s: a word character on exactly one side
WordBoundary(s, p) ==
    (p > 0 /\ IsWordChar(CharAt(s, p - 1))) # (p < Len(s) /\ IsWordChar(CharAt(s, p)))

\* len(re.findall(r'\b' + re.escape(keyword) + r'\b', s)), counted from offset p:
\* the matches are found left to right and do not overlap
RECURSIVE FindAll(_, _, _)
FindAll(s, keyword, p) ==
    IF p + Len(keyword) > Len(s) THEN 0
    ELSE IF /\ SubSeq(s, p + 1, p + Len(keyword)) = keyword
            /\ WordBoundary(s, p)
            /\ WordBoundary(s, p + Len(keyword))
         THEN 1 + FindAll(s, keyword, p + Max(1, Len(keyword)))
         ELSE FindAll(s, keyword, p + 1)

----------------------------------------------------------------------------
(* Python floats.  A float is an IEEE-754 double, kept as the record       *)
(* [neg, exp, man] of the value (-1)^neg * man * 2^exp: man is an integer   *)
(* of exactly 53 bits, written in four limbs base 2^14, least significant   *)
(* first; zero has man = 0 and exp = 0.  The values met here are far from   *)
(* the overflow and the subnormal ranges.  Every operation computes the     *)
(* exact result on integers of any length and rounds it to the nearest      *)
(* double, ties to even.                                                    *)

\* 1, 2, 4, ... : the first n powers of two from p on
RECURSIVE Doublings(_, _)
Doublings(p, n) == IF n = 0 THEN <<>> ELSE <<p>> \o Doublings(2 * p, n - 1)

PowersOfTwo == Doublings(1, 31)

\* 2^n for 0 <= n <= 30
Pow2(n) == PowersOfTwo[n + 1]

RECURSIVE BitLength(_)
BitLength(n) == IF n = 0 THEN 0 ELSE 1 + BitLength(n \div 2)

LimbBase == Pow2(14)

LimbBits == BitLength(LimbBase) - 1

\* the bits of a double's significand, and of a float4's
DoubleBits == 53
RealBits == 24

\* the limb of a at place i (1 is the least significant)
Limb(a, i) == IF i \in DOMAIN a THEN a[i] ELSE 0

\* the place of the highest limb of a that is not zero, from place i down
\* (0 when there is none)
RECURSIVE TopLimb(_, _)
TopLimb(a, i) == IF i = 0 \/ a[i] # 0 THEN i ELSE TopLimb(a, i - 1)

\* the limbs brought back below the base, the excess carried upwards
RECURSIVE Carry(_, _)
Carry(a, c) ==
    IF a = <<>> THEN (IF c = 0 THEN <<>> ELSE <<c % LimbBase>> \o Carry(<<>>, c \div LimbBase))
    ELSE <<(Head(a) + c) % LimbBase>> \o Carry(Tail(a), (Head(a) + c) \div LimbBase)

\* the integer n >= 0 in limbs
BigFromInt(n) == Carry(<<>>, n)

\* the integer a small a stands for
RECURSIVE BigToInt(_)
BigToInt(a) == IF a = <<>> THEN 0 ELSE Head(a) + LimbBase * BigToInt(Tail(a))

BigIsZero(a) == \A i \in DOMAIN a : a[i] = 0

\* a + b
BigAdd(a, b) ==
    LET n == Max(Len(a), Len(b))
    IN  Carry(SubSeq([i \in 1..n |-> Limb(a, i) + Limb(b, i)], 1, n), 0)

\* a - b for a >= b, from limb i on with the borrow of the limbs below
RECURSIVE BigSubFrom(_, _, _, _)
BigSubFrom(a, b, i, borrow) ==
    IF i > Len(a) THEN <<>>
    ELSE LET d == a[i] - Limb(b, i) - borrow
         IN  <<IF d < 0 THEN d + LimbBase ELSE d>>
                 \o BigSubFrom(a, b, i + 1, IF d < 0 THEN 1 ELSE 0)

\* a - b for a >= b
BigSub(a, b) == BigSubFrom(a, b, 1, 0)

\* a < b
BigLess(a, b) ==
    \E i \in 1..Max(Len(a), Len(b)) :
        /\ Limb(a, i) < Limb(b, i)
        /\ \A j \in (i + 1)..Max(Len(a), Len(b)) : Limb(a, j) = Limb(b, j)

\* a * b for a and b of four limbs: the column sums, carried
BigMul(a, b) ==
    Carry(<<a[1] * b[1],
            a[1] * b[2] + a[2] * b[1],
            a[1] * b[3] + a[2] * b[2] + a[3] * b[1],
            a[1] * b[4] + a[2] * b[3] + a[3] * b[2] + a[4] * b[1],
            a[2] * b[4] + a[3] * b[3] + a[4] * b[2],
            a[3] * b[4] + a[4] * b[3],
            a[4] * b[4]>>, 0)

\* a * n for a small n
BigMulSmall(a, n) == Carry(SubSeq([i \in DOMAIN a |-> a[i] * n], 1, Len(a)), 0)

\* the number of bits of a, whose highest limb that is not zero is at `top`
BitsUpTo(a, top) == IF top = 0 THEN 0 ELSE LimbBits * (top - 1) + BitLength(a[top])

\* the number of bits of a
BigBitLength(a) == BitsUpTo(a, TopLimb(a, Len(a)))

\* a * 2^n
BigShl(a, n) ==
    [i \in 1..(n \div LimbBits) |-> 0] \o BigMulSmall(a, Pow2(n % LimbBits))

\* d \div low for a power of two low < LimbBase, with high = LimbBase / low
ShrWithin(d, low, high) ==
    SubSeq([i \in DOMAIN d |-> d[i] \div low + (Limb(d, i + 1) % low) * high],
           1, Len(d))

\* a \div 2^n
BigShr(a, n) ==
    ShrWithin(SubSeq(a, n \div LimbBits + 1, Len(a)),
              Pow2(n % LimbBits), Pow2(LimbBits - (n % LimbBits)))

\* bit i of a (bit 0 is the least significant)
BigBit(a, i) == (Limb(a, i \div LimbBits + 1) \div Pow2(i % LimbBits)) % 2

\* whether a bit of a below bit i is set
BigAnyBelow(a, i) ==
    \/ \E j \in 1..Min(Len(a), i \div LimbBits) : a[j] # 0
    \/ Limb(a, i \div LimbBits + 1) % Pow2(i % LimbBits) # 0

\* the quotient a \div d and the remainder, for a small divisor d, from the
\* most significant limb down
RECURSIVE BigDivSmall(_, _)
BigDivSmall(a, d) ==
    IF a = <<>> THEN [quot |-> <<>>, rem |-> 0]
    ELSE LET high == BigDivSmall(Tail(a), d)
             part == high.rem * LimbBase + Head(a)
         IN  [quot |-> <<part \div d>> \o high.quot, rem |-> part % d]

\* 0.0
DblZero == [neg |-> FALSE, exp |-> 0, man |-> <<0, 0, 0, 0>>]

DblIsZero(a) == BigIsZero(a.man)

\* the four limbs of a significand
FourLimbs(w) == <<Limb(w, 1), Limb(w, 2), Limb(w, 3), Limb(w, 4)>>

\* the record of m * 2^e, m being `short` bits short of the 53 of a record
\* (one too long when short = -1: an even m then)
Widen(neg, m, e, short) ==
    [neg |-> neg, exp |-> e - short,
     man |-> FourLimbs(IF short < 0 THEN BigShr(m, 1) ELSE BigShl(m, short))]

\* the quotient q of big by 2^n, rounded on the n bits dropped (n > 0): up
\* when they are above half of the last bit kept, or half of it and q is odd
RoundedQuotient(big, n, sticky, q) ==
    IF /\ BigBit(big, n - 1) = 1
       /\ (sticky \/ BigAnyBelow(big, n - 1) \/ Limb(q, 1) % 2 = 1)
    THEN BigAdd(q, <<1>>)
    ELSE q

\* big with its n lowest bits rounded away (big itself when n <= 0)
RoundedAway(big, n, sticky) ==
    IF n <= 0 THEN big ELSE RoundedQuotient(big, n, sticky, BigShr(big, n))

\* the record of m * 2^e
Normalised(neg, m, e) == Widen(neg, m, e, DoubleBits - BigBitLength(m))

\* big * 2^exp # 0 rounded at bit n of big
RoundAtBit(neg, big, exp, sticky, n) ==
    Normalised(neg, RoundedAway(big, n, sticky), IF n <= 0 THEN exp ELSE exp + n)

\* the float of the given sign nearest to big * 2^exp (plus a fraction of its
\* last bit when `sticky`), with a significand of `bits` bits: round to
\* nearest, ties to even
RoundToBits(neg, big, exp, sticky, bits) ==
    IF BigIsZero(big) THEN DblZero
    ELSE RoundAtBit(neg, big, exp, sticky, BigBitLength(big) - bits)

\* the double nearest to big * 2^exp
RoundToDouble(neg, big, exp, sticky) == RoundToBits(neg, big, exp, sticky, DoubleBits)

\* the double nearest to the quotient q.quot * 2^-70 of a division that left
\* the remainder q.rem
RoundDivision(q) == RoundToDouble(FALSE, q.quot, -(5 * LimbBits), q.rem # 0)

\* the double nearest to n / d for integers n >= 0 and 0 < d <= 1000, by long
\* division of n * 2^70 by d
DblRatio(n, d) == RoundDivision(BigDivSmall(BigShl(BigFromInt(n), 5 * LimbBits), d))

\* float(n) of a small integer n >= 0
DblFromInt(n) == DblRatio(n, 1)

\* the float a decimal literal of k thousandths is read as: the double
\* nearest to k/1000
Dbl(k) == DblRatio(k, 1000)

\* 1.0 = 2^52 * 2^-52
DblOne == [neg |-> FALSE, exp |-> 1 - DoubleBits, man |-> <<0, 0, 0, LimbBase \div 16>>]

\* 0.5
DblHalf == [DblOne EXCEPT !.exp = -DoubleBits]

\* -a
DblNeg(a) == IF DblIsZero(a) THEN a ELSE [a EXCEPT !.neg = ~a.neg]

\* abs(a)
DblAbs(a) == [a EXCEPT !.neg = FALSE]

\* |a| < |b|
DblMagLess(a, b) ==
    IF DblIsZero(b) THEN FALSE
    ELSE IF DblIsZero(a) THEN TRUE
    ELSE a.exp < b.exp \/ (a.exp = b.exp /\ BigLess(a.man, b.man))

\* a < b
DblLess(a, b) ==
    IF a.neg # b.neg THEN a.neg
    ELSE IF a.neg THEN DblMagLess(b, a)
    ELSE DblMagLess(a, b)

\* a <= b
DblLessEq(a, b) == ~DblLess(b, a)

\* the magnitudes further apart than this many binary places do not meet: the
\* smaller one is below half of the last bit of the larger
FarApart == DoubleBits + 7

\* hi + lo, `wide` being the significand of hi at the exponent of lo
AddAligned(hi, lo, wide) ==
    RoundToDouble(hi.neg,
                  IF hi.neg = lo.neg THEN BigAdd(wide, lo.man) ELSE BigSub(wide, lo.man),
                  lo.exp, FALSE)

\* hi + lo for |hi| >= |lo| > 0
AddOrdered(hi, lo) ==
    IF hi.exp - lo.exp > FarApart THEN hi
    ELSE AddAligned(hi, lo, BigShl(hi.man, hi.exp - lo.exp))

\* a + b in float arithmetic: the exact sum, rounded
DblAdd(a, b) ==
    IF DblIsZero(a) THEN b
    ELSE IF DblIsZero(b) THEN a
    ELSE AddOrdered(IF DblMagLess(a, b) THEN b ELSE a, IF DblMagLess(a, b) THEN a ELSE b)

\* a - b in float arithmetic
DblSub(a, b) == DblAdd(a, DblNeg(b))

\* a * b in float arithmetic: the exact product, rounded
DblMul(a, b) ==
    IF DblIsZero(a) \/ DblIsZero(b) THEN DblZero
    ELSE RoundToDouble(a.neg # b.neg, BigMul(a.man, b.man), a.exp + b.exp, FALSE)

\* min(a, b) and max(a, b) of Python: the first argument unless the second
\* is smaller (greater)
DblMin(a, b) == IF DblLess(b, a) THEN b ELSE a
DblMax(a, b) == IF DblLess(a, b) THEN b ELSE a

\* max(0.0, min(1.0, x))
Clamp(x) == DblMax(DblZero, DblMin(DblOne, x))

\* the value a REAL column returns for the float written to it: the float4
\* nearest to it, read back as a double
RealColumn(x) == RoundToBits(x.neg, x.man, x.exp, FALSE, RealBits)

\* big / 2^n to the nearest integer, halves upwards
ScaledMagnitude(big, n) ==
    IF n <= 0 THEN BigToInt(BigShl(big, -n))
    ELSE IF n > BigBitLength(big) THEN 0
    ELSE BigToInt(BigShr(big, n)) + BigBit(big, n - 1)

\* a float in thousandths, to the nearest (halves away from zero): what
\* round(1000 * x) is up to the rounding of the product
Thousandths(x) == IF x.neg THEN -ScaledMagnitude(BigMulSmall(x.man, 1000), -x.exp)
                  ELSE ScaledMagnitude(BigMulSmall(x.man, 1000), -x.exp)

----------------------------------------------------------------------------
(* Inputs of the pipeline *)

\* the article a feed item c leads to when its page is fetched and its text
\* extracted (ArticleContent without source_name, which the fetcher copies
\* from the feed item); content_hash stands for the SHA-256 of the text
Content(c) ==
    IF c = 1
    THEN [canonical_url |-> "https://a.example/1",
          title         |-> "Plain title 1",
          text          |-> "b1",
          outlet        |-> "a.example",
          published_at  |-> 1,
          content_hash  |-> "h1"]
    ELSE [canonical_url |-> "https://b.example/2",
          title         |-> "New regulation policy",
          text          |-> "b2",
          outlet        |-> "b.example",
          published_at  |-> None,
          content_hash  |-> "h2"]

\* the numbers of enabled sources sources.yaml may configure
SourceCounts == {0, 1}

\* the --max-items / --max-stories arguments tried
RunArgs == {[max_items |-> 2, max_stories |-> 1], [max_items |-> 2, max_stories |-> 2]}

\* the lengths of a feed
FeedLens == {0, 1, 2}

----------------------------------------------------------------------------
(* Run store: db/runs.py *)

\* "SELECT id FROM runs WHERE run_date = %s ORDER BY started_at DESC LIMIT 1"
\* (None when no row; the row with the latest started_at otherwise)
ExistingRunIds(rs, run_date) ==
    LET ids == {i \in DOMAIN rs : rs[i].run_date = run_date}
    IN  IF ids = {} THEN {None}
        ELSE {i \in ids : \A j \in ids : rs[j].started_at <= rs[i].started_at}

\* UPDATE runs SET started_at, finished_at = NULL, status = 'running', stats_json = NULL
ResetRun(rs, id, started_at) ==
    [rs EXCEPT ![id] = [@ EXCEPT !.started_at = started_at,
                                 !.finished_at = None,
                                 !.status = "running",
                                 !.stats_json = <<>>]]

\* INSERT INTO runs (run_date, started_at, status) VALUES (%s, %s, 'running')
InsertRun(rs, run_date, started_at) ==
    Append(rs, [run_date |-> run_date, started_at |-> started_at,
                finished_at |-> None, status |-> "running", stats_json |-> <<>>])

\* create_run without the branch for an existing row: it always inserts
CreateRunTable_AlwaysInsert(rs, existing, run_date, started_at) ==
    InsertRun(rs, run_date, started_at)

\* RunManager.create_run: the table afterwards, given the row the SELECT found
CreateRunTable(rs, existing, run_date, started_at) ==
    IF existing # None
    THEN ResetRun(rs, existing, started_at)
    ELSE InsertRun(rs, run_date, started_at)

\* RunManager.create_run: the id returned
CreateRunId(rs, existing) ==
    IF existing # None THEN existing ELSE Len(rs) + 1

\* update_run_status that leaves finished_at as it is
UpdateRunTable_KeepFinishedAt(rs, id, status, stats_json, now) ==
    [i \in DOMAIN rs |->
        IF i = id
        THEN [rs[i] EXCEPT !.status = status, !.stats_json = stats_json]
        ELSE rs[i]]

\* RunManager.update_run_status
UpdateRunTable(rs, id, status, stats_json, now) ==
    LET finished_at == IF status \in {"success", "failed"} THEN now ELSE None
    IN  [i \in DOMAIN rs |->
            IF i = id
            THEN [rs[i] EXCEPT !.status = status,
                               !.finished_at = finished_at,
                               !.stats_json = stats_json]
            ELSE rs[i]]

\* the records of a date
RunsOfDate(rs, d) == {i \in DOMAIN rs : rs[i].run_date = d}

----------------------------------------------------------------------------
(* Source store: db/sources.py *)

\* dict.get(key) on a dict kept as the sequence of its <<key, value>> items
\* in insertion order (None when the key is absent)
MapGet(m, key) ==
    IF \E i \in DOMAIN m : m[i][1] = key
    THEN m[CHOOSE i \in DOMAIN m : m[i][1] = key][2]
    ELSE None

\* d[key] = value: a key already present keeps its place
MapPut(m, key, value) ==
    IF \E i \in DOMAIN m : m[i][1] = key
    THEN [i \in DOMAIN m |-> IF m[i][1] = key THEN <<key, value>> ELSE m[i]]
    ELSE Append(m, <<key, value>>)

\* INSERT INTO sources (name, url, category, weight, enabled): the row of a SourceConfig
SourceRow(source) ==
    [name |-> source.name, category |-> source.category,
     weight |-> source.weight, enabled |-> source.enabled]

\* id SERIAL PRIMARY KEY: an id the sequence handed out that no row carries
ConsumedId == [name |-> NoneStr, category |-> NoneStr, weight |-> 0, enabled |-> FALSE]

\* ROLLBACK of a transaction that left a table as `written`: the committed
\* rows stay as they were; nextval is not rolled back, and the ids the
\* transaction drew from the sequence of the table stay drawn
RolledBack(committed, written, consumed) ==
    committed \o [i \in 1..(Len(written) - Len(committed)) |-> consumed]

\* SourceManager.sync_sources: INSERT ... ON CONFLICT (name) DO UPDATE ...
\* RETURNING id for each source in turn; the table and the source_map built.
\* The INSERT draws the next id of the sequence before the conflict on the
\* name is found: an update of an existing source uses up an id.
RECURSIVE SyncSources(_, _, _)
SyncSources(table, source_map, configs) ==
    IF configs = <<>> THEN [sources |-> table, source_map |-> source_map]
    ELSE LET source == Head(configs)
             found == {i \in DOMAIN table : /\ table[i] # ConsumedId
                                            /\ table[i].name = source.name}
             id == IF found = {} THEN Len(table) + 1 ELSE CHOOSE i \in found : TRUE
             written == IF found = {} THEN Append(table, SourceRow(source))
                        ELSE Append([table EXCEPT ![id] = SourceRow(source)], ConsumedId)
         IN  SyncSources(written, MapPut(source_map, source.name, id), Tail(configs))

\* sync_sources raising at the INSERT of its k-th source: the table with the
\* writes made until then
SyncSourcesRaising(table, configs, k) ==
    SyncSources(table, <<>>, SubSeq(configs, 1, k - 1)).sources

----------------------------------------------------------------------------
(* Article store: db/articles.py *)

\* ArticleStorage._get_article_path, below the workspace root
ArticlePath(run_date, article_id) ==
    "runs/" \o run_date \o "/extracted/article_" \o ToString(article_id) \o ".txt"

\* path.write_text(text)
WriteFile(fs, path, text) ==
    [p \in DOMAIN fs \cup {path} |-> IF p = path THEN text ELSE fs[p]]

\* what path.write_text(text) may leave in the file when it raises after the
\* open: the file is truncated and the text written up to any point (the
\* texts are ASCII: a character is a byte)
PartialTexts(text) == {SubSeq(text, 1, n) : n \in 0..Len(text)}

\* id SERIAL PRIMARY KEY of articles: an id the sequence handed out that no
\* row carries
ConsumedArticleId ==
    [source_id      |-> None,
     canonical_url  |-> NoneStr,
     title          |-> NoneStr,
     published_at   |-> None,
     outlet         |-> NoneStr,
     content_hash   |-> NoneStr,
     extracted_path |-> NoneStr,
     first_seen_at  |-> None,
     last_seen_at   |-> None]

\* INSERT INTO articles (...) VALUES (...): the row of an ArticleContent
ArticleRow(a, source_id, extracted_path, now) ==
    [source_id      |-> source_id,
     canonical_url  |-> a.canonical_url,
     title          |-> a.title,
     published_at   |-> a.published_at,
     outlet         |-> a.outlet,
     content_hash   |-> a.content_hash,
     extracted_path |-> extracted_path,
     first_seen_at  |-> now,
     last_seen_at   |-> now]

\* upsert_article with the existence check on the canonical URL alone
UpsertArticle_UrlOnly(arts, a, source_id, run_date, now) ==
    LET matches == {i \in DOMAIN arts : /\ arts[i] # ConsumedArticleId
                                         /\ arts[i].canonical_url = a.canonical_url}
    IN  IF matches # {}
        THEN {[articles |-> [arts EXCEPT ![i].last_seen_at = now],
               id |-> i, is_new |-> FALSE] : i \in matches}
        ELSE {[articles |-> Append(arts,
                    ArticleRow(a, source_id, ArticlePath(run_date, Len(arts) + 1), now)),
               id |-> Len(arts) + 1, is_new |-> TRUE]}

\* ArticleStorage.upsert_article: the outcomes [articles, id, is_new].  The
\* SELECT ... LIMIT 1 has no ORDER BY: any matching row may be the one found.
\* A new row is inserted with extracted_path "", its text is saved, and the
\* path is written to the row.
UpsertArticle(arts, a, source_id, run_date, now) ==
    LET matches == {i \in DOMAIN arts :
                        /\ arts[i] # ConsumedArticleId
                        /\ \/ arts[i].canonical_url = a.canonical_url
                           \/ arts[i].content_hash = a.content_hash}
    IN  IF matches # {}
        THEN {[articles |-> [arts EXCEPT ![i].last_seen_at = now],
               id |-> i, is_new |-> FALSE] : i \in matches}
        ELSE {[articles |-> Append(arts,
                    ArticleRow(a, source_id, ArticlePath(run_date, Len(arts) + 1), now)),
               id |-> Len(arts) + 1, is_new |-> TRUE]}

\* the value link_article_to_run inserts for included_in_rank
LinkedFlag == TRUE

\* ArticleStorage.link_article_to_run: INSERT ... ON CONFLICT DO NOTHING
LinkArticleToRun(ra, rid, aid) ==
    [k \in DOMAIN ra \cup {<<rid, aid>>} |->
        IF k \in DOMAIN ra THEN ra[k]
        ELSE [included_in_rank |-> LinkedFlag, score_json |-> <<>>]]

\* process_articles: source_map.get(article.source_name), else the first
\* source whose name contains the article's outlet, else None
SourceIdFor(source_map, a) ==
    LET by_name == MapGet(source_map, a.source_name)
        by_outlet == {i \in DOMAIN source_map :
                        /\ a.outlet \notin {NoneStr, ""}
                        /\ Contains(Lower(source_map[i][1]), Lower(a.outlet))}
    IN  IF by_name # None THEN by_name
        ELSE IF by_outlet = {} THEN None
        ELSE source_map[CHOOSE i \in by_outlet : \A j \in by_outlet : i <= j][2]

\* ArticleStorage.process_articles: the outcomes [articles, run_articles,
\* files, stats] of the loop over the fetched articles.  An article whose
\* source is found neither by name nor by outlet is passed over.
RECURSIVE ProcessArticles(_, _, _, _, _, _)
ProcessArticles(st, fetched, source_map, rid, run_date, now) ==
    IF fetched = <<>> THEN {st}
    ELSE LET a == Head(fetched)
             source_id == SourceIdFor(source_map, a)
         IN  IF ~a.fetch_success
             THEN ProcessArticles([st EXCEPT !.stats.failed = @ + 1],
                                  Tail(fetched), source_map, rid, run_date, now)
             ELSE IF source_id = None
             THEN ProcessArticles(st, Tail(fetched), source_map, rid, run_date, now)
             ELSE UNION {
                    ProcessArticles(
                        [articles     |-> u.articles,
                         run_articles |-> LinkArticleToRun(st.run_articles, rid, u.id),
                         files        |-> IF u.is_new
                                          THEN WriteFile(st.files,
                                                         u.articles[u.id].extracted_path,
                                                         a.text)
                                          ELSE st.files,
                         stats        |-> [st.stats EXCEPT
                                             !.new = IF u.is_new THEN @ + 1 ELSE @,
                                             !.duplicates = IF u.is_new THEN @ ELSE @ + 1,
                                             !.stored = @ + 1]],
                        Tail(fetched), source_map, rid, run_date, now)
                    : u \in UpsertArticle(st.articles, a, source_id, run_date, now)}

\* upsert_article and link_article_to_run raising for the article a, from
\* the tables and files st: the writes made until then.  Nothing, when the
\* SELECT, the UPDATE of last_seen_at or the INSERT raises; for a new article
\* the row with extracted_path "" when _save_article_text raises, with no
\* file (mkdir or the open fails) or with the file holding the text up to
\* the point where write_text failed; the row and the whole file when the
\* UPDATE of extracted_path raises; the article stored and not linked when
\* the INSERT INTO run_articles raises.
UpsertRaising(st, a, source_id, run_date, now) ==
    {st}
    \cup (IF \E i \in DOMAIN st.articles :
                 /\ st.articles[i] # ConsumedArticleId
                 /\ \/ st.articles[i].canonical_url = a.canonical_url
                    \/ st.articles[i].content_hash = a.content_hash
          THEN {}
          ELSE {[st EXCEPT !.articles = Append(@, ArticleRow(a, source_id, "", now))]}
               \cup {[st EXCEPT !.articles = Append(@, ArticleRow(a, source_id, "", now)),
                                !.files = WriteFile(@, ArticlePath(run_date,
                                                                   Len(st.articles) + 1),
                                                    written)] :
                        written \in PartialTexts(a.text)})
    \cup {[st EXCEPT !.articles = u.articles,
                     !.files = IF u.is_new
                               THEN WriteFile(@, u.articles[u.id].extracted_path, a.text)
                               ELSE @] :
            u \in UpsertArticle(st.articles, a, source_id, run_date, now)}

\* process_articles raising at its k-th article: the writes made until then.
\* The articles before it are stored and linked.
ProcessArticlesRaising(st, fetched, source_map, rid, run_date, now, k) ==
    IF ~fetched[k].fetch_success \/ SourceIdFor(source_map, fetched[k]) = None THEN {}
    ELSE UNION {UpsertRaising(t, fetched[k], SourceIdFor(source_map, fetched[k]),
                              run_date, now) :
                t \in ProcessArticles(st, SubSeq(fetched, 1, k - 1), source_map,
                                      rid, run_date, now)}

\* ORDER BY a.published_at DESC: NULLs sort first, equal keys in any order
DescBefore(x, y) == x = None \/ (y # None /\ x >= y)

\* ArticleStorage.get_run_articles: the row lists the query may return
\* (a.*, s.name, s.weight, ra.included_in_rank, ra.score_json).  sources.weight
\* is a REAL column: the row carries the float4 nearest to the weight written.
GetRunArticles(srcs, arts, ra, rid, only_ranked) ==
    LET ids == {i \in DOMAIN arts :
                    /\ arts[i] # ConsumedArticleId
                    /\ <<rid, i>> \in DOMAIN ra
                    /\ arts[i].source_id \in DOMAIN srcs
                    /\ srcs[arts[i].source_id] # ConsumedId
                    /\ (only_ranked => ra[<<rid, i>>].included_in_rank)}
        row(i) == [id |-> i,
                   source_id      |-> arts[i].source_id,
                   canonical_url  |-> arts[i].canonical_url,
                   title          |-> arts[i].title,
                   published_at   |-> arts[i].published_at,
                   outlet         |-> arts[i].outlet,
                   content_hash   |-> arts[i].content_hash,
                   extracted_path |-> arts[i].extracted_path,
                   first_seen_at  |-> arts[i].first_seen_at,
                   last_seen_at   |-> arts[i].last_seen_at,
                   source_name    |-> srcs[arts[i].source_id].name,
                   source_weight  |-> RealColumn(Dbl(srcs[arts[i].source_id].weight)),
                   included_in_rank |-> ra[<<rid, i>>].included_in_rank,
                   score_json     |-> ra[<<rid, i>>].score_json]
    IN  {[k \in DOMAIN p |-> row(p[k])] :
            p \in {q \in Perms(ids) :
                    \A i, j \in DOMAIN q :
                        i < j => DescBefore(arts[q[i]].published_at,
                                            arts[q[j]].published_at)}}

\* CURRENT_DATE: the start of the day of `now`
CurrentDate(now) == now - (now % HoursPerDay)

\* The rows of get_recent_articles' SELECT (id, canonical_url, content_hash,
\* title, published_at; first_seen_at within `days` days, latest first, at
\* most `limit`): the row lists the query may return.
RecentRows(arts, now, limit, days) ==
    LET ids == {i \in DOMAIN arts :
                    /\ arts[i] # ConsumedArticleId
                    /\ arts[i].first_seen_at >= CurrentDate(now) - days * HoursPerDay}
        row(i) == [id |-> i,
                   canonical_url |-> arts[i].canonical_url,
                   content_hash  |-> arts[i].content_hash,
                   title         |-> arts[i].title,
                   published_at  |-> arts[i].published_at]
    IN  {PySlice([k \in DOMAIN p |-> row(p[k])], limit) :
            p \in {q \in Perms(ids) :
                    \A i, j \in DOMAIN q :
                        i < j => arts[q[i]].first_seen_at >= arts[q[j]].first_seen_at}}

\* how the driver binds the parameters of cursor.execute: in the server,
\* where every %s of the statement becomes a $n placeholder, or in the client,
\* which splices the adapted values into the statement text
ParameterBindings == {"server", "client"}

\* the message of the error the server returns for INTERVAL '$1 days'
IntervalError == "invalid input syntax for type interval"

\* ArticleStorage.get_recent_articles: the outcomes [raised, rows].  The
\* statement holds a %s inside a quoted literal, INTERVAL '%s days': bound in
\* the server the literal reaches it as '$1 days' and the statement is
\* rejected, whatever the arguments; spliced in the client it reads
\* INTERVAL '28 days' and the rows come back.
GetRecentArticles(arts, now, limit, days, binding) ==
    IF binding = "server"
    THEN {[raised |-> IntervalError, rows |-> <<>>]}
    ELSE {[raised |-> NoneStr, rows |-> rows] : rows \in RecentRows(arts, now, limit, days)}

----------------------------------------------------------------------------
(* Configuration load: config/models.py RankingConfig *)

WeightNames == <<"recency_weight", "source_weight", "topic_weight", "novelty_weight">>

\* the Field(...) default of a weight
WeightDefault(name) ==
    CASE name = "recency_weight" -> recency_weight
      [] name = "source_weight"  -> source_weight
      [] name = "topic_weight"   -> topic_weight
      [] name = "novelty_weight" -> novelty_weight

\* `abs(total - 1.0) > 0.001`: the tolerance, in thousandths
WeightTolerance == 1

\* the weight values a configuration file may supply (1.2 is out of range)
WeightInputs == {0, 1000, 1200}

\* sections whose weights sum to 0.999 or to 1.001 on paper
BoundaryConfigs ==
    {[recency_weight |-> 0, source_weight |-> 0, topic_weight |-> 0,
      novelty_weight |-> 999],
     [recency_weight |-> 0, source_weight |-> 0, topic_weight |-> 100,
      novelty_weight |-> 901],
     [recency_weight |-> 300, source_weight |-> 200, topic_weight |-> 300,
      novelty_weight |-> 199],
     [recency_weight |-> 500, source_weight |-> 500, topic_weight |-> 0,
      novelty_weight |-> 1]}

\* the `ranking` section of config.yaml: the weights it supplies
RawConfigs ==
    UNION {[S -> WeightInputs] : S \in SUBSET {WeightNames[i] : i \in 1..4}}
    \cup BoundaryConfigs

\* Field(ge=0.0, le=1.0)
FieldValid(v) == 0 <= v /\ v <= One

\* info.data.get(name, default): the validated value of an earlier field, or
\* the default when the field was not supplied or failed its own validation
InfoData(raw, name) ==
    IF name \in DOMAIN raw /\ FieldValid(raw[name]) THEN raw[name]
    ELSE WeightDefault(name)

\* RankingConfig.validate_weights for field novelty_weight with value v:
\* TRUE when it returns v, FALSE when it raises ValueError.  The sum is taken
\* left to right in floats and compared with the floats 1.0 and 0.001.
validate_weights(raw, v) ==
    LET total == DblAdd(DblAdd(DblAdd(Dbl(InfoData(raw, "recency_weight")),
                                      Dbl(InfoData(raw, "source_weight"))),
                               Dbl(InfoData(raw, "topic_weight"))),
                        Dbl(v))
    IN  ~DblLess(Dbl(WeightTolerance), DblAbs(DblSub(total, DblOne)))

\* the weights of the RankingConfig built from raw
EffectiveWeights(raw) ==
    [recency_weight |-> IF "recency_weight" \in DOMAIN raw
                        THEN raw["recency_weight"] ELSE recency_weight,
     source_weight  |-> IF "source_weight" \in DOMAIN raw
                        THEN raw["source_weight"] ELSE source_weight,
     topic_weight   |-> IF "topic_weight" \in DOMAIN raw
                        THEN raw["topic_weight"] ELSE topic_weight,
     novelty_weight |-> IF "novelty_weight" \in DOMAIN raw
                        THEN raw["novelty_weight"] ELSE novelty_weight]

\* RankingConfig(**raw): accepted or rejected.  Validators run on supplied
\* fields only; a default is taken as it is.
LoadRankingConfig(raw) ==
    LET fields_ok == \A n \in DOMAIN raw : FieldValid(raw[n])
        sum_ok == ("novelty_weight" \in DOMAIN raw /\ FieldValid(raw["novelty_weight"]))
                      => validate_weights(raw, raw["novelty_weight"])
    IN  [accepted |-> fields_ok /\ sum_ok, config |-> EffectiveWeights(raw)]

DefaultRankingConfig == EffectiveWeights(<<>>)


----------------------------------------------------------------------------
(* Scoring signals: ranking/scorers.py.  Times are in hours. *)

\* math.exp(-decay_rate * age_hours) for an age of 1 to 47 whole hours, the
\* half-life being 48 hours: the significand of the double returned, which
\* lies in [0.5, 1)
DecayTable ==
    <<<<14512, 12675, 10456, 2018>>, <<1460, 7459, 11426, 1989>>, <<4314, 2706, 2810, 1961>>,
      <<4932, 7232, 894, 1933>>, <<5649, 3593, 5583, 1905>>, <<9351, 13294, 397, 1878>>,
      <<11115, 14546, 1628, 1851>>, <<297, 7483, 9184, 1824>>, <<4764, 13845, 6589, 1798>>,
      <<12333, 11137, 10139, 1772>>, <<14138, 14241, 3361, 1747>>, <<5037, 9579, 2553, 1722>>,
      <<5558, 3967, 7629, 1697>>, <<6072, 7942, 2120, 1673>>, <<12432, 2703, 2328, 1649>>,
      <<11837, 5365, 8170, 1625>>, <<5438, 3141, 3182, 1602>>, <<8412, 2218, 3668, 1579>>,
      <<171, 11104, 9549, 1556>>, <<4016, 7587, 4365, 1534>>, <<391, 4012, 4423, 1512>>,
      <<528, 14248, 9647, 1490>>, <<1055, 4282, 3581, 1469>>, <<15309, 6652, 2534, 1448>>,
      <<246, 5514, 6435, 1427>>, <<5800, 1923, 15213, 1406>>, <<5161, 13601, 12413, 1386>>,
      <<11358, 9155, 14352, 1366>>, <<4193, 6150, 4577, 1347>>, <<10791, 5336, 15789, 1327>>,
      <<11289, 6809, 15154, 1308>>, <<12939, 9781, 2607, 1290>>, <<13346, 12360, 10852, 1271>>,
      <<15901, 11330, 7058, 1253>>, <<14750, 1936, 7547, 1235>>, <<14101, 10438, 12256, 1217>>,
      <<15603, 11982, 4742, 1200>>, <<5835, 12314, 1329, 1183>>, <<8761, 14805, 1958, 1166>>,
      <<5824, 3871, 6572, 1149>>, <<1532, 10307, 15112, 1132>>, <<4475, 12789, 11139, 1116>>,
      <<5041, 3219, 10982, 1100>>, <<14691, 2917, 14585, 1084>>, <<2320, 13286, 5510, 1069>>,
      <<5585, 15621, 89, 1054>>, <<6979, 3703, 14654, 1038>>>>

\* the same for the longer ages of the articles ranked below: the double
LongDecays ==
    (48 :> [neg |-> FALSE, exp |-> -53, man |-> <<0, 0, 0, 1024>>])
    @@ (100 :> [neg |-> FALSE, exp |-> -55, man |-> <<4933, 7232, 894, 1933>>])
    @@ (600 :> [neg |-> FALSE, exp |-> -65, man |-> <<15307, 6652, 2534, 1448>>])

\* math.exp(-decay_rate * age_hours) for an age of h whole hours, h > 0
Decay(h) ==
    IF h < half_life_hours
    THEN [neg |-> FALSE, exp |-> -DoubleBits, man |-> DecayTable[h]]
    ELSE LongDecays[h]

\* RecencyScorer.score: 0.5 without a date, else exp(-ln 2 * age / half-life)
\* clamped to [0,1]
RecencyScorer(article, now) ==
    IF article.published_at = None THEN DblHalf
    ELSE IF now - article.published_at <= 0 THEN DblOne
    ELSE Clamp(Decay(now - article.published_at))

\* SourceScorer.score: max(0.0, min(1.0, float(weight))) of the weight the
\* row carries
SourceScorer(article) == Clamp(article.source_weight)

\* [k.lower() for k in keywords]
LowerAll(strings) == {Lower(s) : s \in strings}

\* TopicScorer._count_matches and the sum of its counts over the keywords
RECURSIVE CountMatches(_, _)
CountMatches(text, keywords) ==
    IF keywords = {} THEN 0
    ELSE LET k == CHOOSE k \in keywords : TRUE
         IN  FindAll(Lower(text), k, 0) + CountMatches(text, keywords \ {k})

\* the suppression normalised like the boost, by 10 matches instead of 5
TopicScorer_SymmetricSuppress(self, article, content) ==
    LET boost == CountMatches(article.title, self.boost_keywords) * title_weight
                    + CountMatches(content, self.boost_keywords)
        suppress == CountMatches(article.title, self.suppress_keywords) * title_weight
                    + CountMatches(content, self.suppress_keywords)
        boost_score == IF boost > 0 THEN DblMin(DblOne, DblRatio(boost, 10)) ELSE DblZero
        suppress_score == IF suppress > 0 THEN DblMin(DblOne, DblRatio(suppress, 10))
                          ELSE DblZero
        score == DblSub(DblAdd(DblHalf, DblMul(boost_score, DblHalf)),
                        DblMul(suppress_score, DblHalf))
    IN  Clamp(score)

\* TopicScorer.score on the title of the article and the body text; self
\* holds the lower-cased keyword lists.  The counts are whole numbers, the
\* rest is float arithmetic: 0.5 + (boost_score * 0.5) - (suppress_score * 0.5)
TopicScorer(self, article, content) ==
    LET boost == CountMatches(article.title, self.boost_keywords) * title_weight
                    + CountMatches(content, self.boost_keywords)
        suppress == CountMatches(article.title, self.suppress_keywords) * title_weight
                    + CountMatches(content, self.suppress_keywords)
        boost_score == IF boost > 0 THEN DblMin(DblOne, DblRatio(boost, 10)) ELSE DblZero
        suppress_score == IF suppress > 0 THEN DblMin(DblOne, DblRatio(suppress, 5))
                          ELSE DblZero
        score == DblSub(DblAdd(DblHalf, DblMul(boost_score, DblHalf)),
                        DblMul(suppress_score, DblHalf))
    IN  Clamp(score)

\* set(title.lower().split())
TitleWords(title) == Range(Split(Lower(title)))

\* similarity by title alone: the URL and content-hash tests left out
IsSimilar_TitleOnly(article1, article2) ==
    LET words1 == TitleWords(article1.title)
        words2 == TitleWords(article2.title)
    IN  /\ article1.title # "" /\ article2.title # ""
        /\ Cardinality(words1) > 3 /\ Cardinality(words2) > 3
        /\ Cardinality(words1 \cap words2) * 100
              >= similarity_threshold * Min(Cardinality(words1), Cardinality(words2))

\* NoveltyScorer._is_similar
IsSimilar(article1, article2) ==
    \/ article1.canonical_url = article2.canonical_url
    \/ (article1.content_hash # "" /\ article1.content_hash = article2.content_hash)
    \/ LET words1 == TitleWords(article1.title)
           words2 == TitleWords(article2.title)
       IN  /\ article1.title # "" /\ article2.title # ""
           /\ Cardinality(words1) > 3 /\ Cardinality(words2) > 3
           /\ Cardinality(words1 \cap words2) * 100
                 >= similarity_threshold * Min(Cardinality(words1), Cardinality(words2))

\* `days_ago` of NoveltyScorer.score: 0 unless the row carries first_seen_at
DaysAgo(recent, now) ==
    IF "first_seen_at" \in DOMAIN recent
    THEN (now - recent.first_seen_at) \div HoursPerDay
    ELSE 0

\* NoveltyScorer.score: the tier of the first similar row of the window
RECURSIVE NoveltyScorer(_, _, _)
NoveltyScorer(article, recent_articles, now) ==
    IF recent_articles = <<>> THEN DblOne
    ELSE LET recent == Head(recent_articles)
         IN  IF recent.id # article.id /\ IsSimilar(article, recent)
             THEN IF DaysAgo(recent, now) <= 1 THEN Dbl(100)
                  ELSE IF DaysAgo(recent, now) <= 3 THEN Dbl(300)
                  ELSE DblHalf
             ELSE NoveltyScorer(article, Tail(recent_articles), now)

\* PreferenceScorer.score raises AttributeError when the outlet is None
PreferenceRaises(article) == article.outlet = NoneStr

\* PreferenceScorer.score: base 0.5, +0.25 when a preferred outlet is a
\* substring of the lower-cased outlet, +0.25 when the lower-cased category
\* is a preferred category; self holds the lower-cased preference lists
PreferenceScorer(self, article, source_category) ==
    LET outlet == Lower(article.outlet)
        category == Lower(source_category)
        by_outlet == IF /\ outlet # ""
                        /\ \E pref \in self.preferred_outlets : Contains(outlet, pref)
                     THEN Dbl(250) ELSE DblZero
        by_category == IF category \in self.preferred_categories THEN Dbl(250) ELSE DblZero
    IN  Clamp(DblAdd(DblAdd(DblHalf, by_outlet), by_category))

----------------------------------------------------------------------------
(* Ranking engine: ranking/ranker.py *)

\* dict.get(key, default)
DictGet(d, key, default) == IF key \in DOMAIN d THEN d[key] ELSE default

\* PreferencesConfig(**section).model_dump(): the declared fields only
PreferencesModelDump(section) ==
    [k \in {"boost_keywords", "suppress_keywords"} |-> DictGet(section, k, {})]

\* ArticleRanker.__init__: the ranker built from a RankingConfig and a
\* preferences dict, with the keyword and preference lists of its scorers
ArticleRanker(config, preferences) ==
    [config               |-> config,
     boost_keywords       |-> LowerAll(DictGet(preferences, "boost_keywords", {})),
     suppress_keywords    |-> LowerAll(DictGet(preferences, "suppress_keywords", {})),
     preferred_outlets    |-> LowerAll(DictGet(preferences, "preferred_outlets", {})),
     preferred_categories |-> LowerAll(DictGet(preferences, "preferred_categories", {}))]

\* the weight score_article gives the preference signal: 1 minus the four
\* configured weights, taken away one after the other
PreferenceWeight(w_recency, w_source, w_topic, w_novelty) ==
    DblSub(DblSub(DblSub(DblSub(DblOne, w_recency), w_source), w_topic), w_novelty)

\* the sum of the five products of score_article, added from left to right
WeightedSum(s, w_recency, w_source, w_topic, w_novelty, w_preference) ==
    DblAdd(DblAdd(DblAdd(DblAdd(DblMul(s.recency, w_recency),
                                DblMul(s.source, w_source)),
                         DblMul(s.topic, w_topic)),
                  DblMul(s.novelty, w_novelty)),
           DblMul(s.preference, w_preference))

\* the sum of score_article under the four explicit weights
WeightedUnder(s, w_recency, w_source, w_topic, w_novelty) ==
    WeightedSum(s, w_recency, w_source, w_topic, w_novelty,
                PreferenceWeight(w_recency, w_source, w_topic, w_novelty))

\* the weighted total of score_article in float arithmetic, the weights being
\* the floats the configuration's numbers are read as
WeightedTotal(s, config) ==
    WeightedUnder(s, Dbl(config.recency_weight), Dbl(config.source_weight),
                  Dbl(config.topic_weight), Dbl(config.novelty_weight))

\* ArticleRanker._load_article_content and the `or ""` of score_article: the
\* text of the file, "" without a path or when the file cannot be read
LoadArticleContent(fs, article) ==
    IF article.extracted_path \in {NoneStr, ""} THEN ""
    ELSE IF article.extracted_path \in DOMAIN fs THEN fs[article.extracted_path]
    ELSE ""

\* context["source_category"] of score_article: `source_category or ""`
ContextCategory(source_category) ==
    IF source_category = NoneStr THEN "" ELSE source_category

\* the five signals of score_article, computed from the article row
ComponentScores(self, fs, article, recent_articles, source_category, now) ==
    [recency    |-> RecencyScorer(article, now),
     source     |-> SourceScorer(article),
     topic      |-> TopicScorer(self, article, LoadArticleContent(fs, article)),
     novelty    |-> NoveltyScorer(article, recent_articles, now),
     preference |-> PreferenceScorer(self, article, ContextCategory(source_category))]

\* ArticleScore(...): every score field is declared ge=0.0, le=1.0
ArticleScoreValid(s, total) ==
    /\ DblLessEq(DblZero, total) /\ DblLessEq(total, DblOne)
    /\ \A f \in DOMAIN s : DblLessEq(DblZero, s[f]) /\ DblLessEq(s[f], DblOne)

\* the outcome of score_article once the signals s and the total are computed:
\* the ArticleScore is built, or its validation raises
ValidatedOutcome(s, total) ==
    [raised |-> IF ArticleScoreValid(s, total) THEN "" ELSE "ValidationError",
     scores |-> s, total |-> total]

\* the outcome of score_article for the signals s
TotalledOutcome(s, config) == ValidatedOutcome(s, WeightedTotal(s, config))

\* ArticleRanker.score_article on an article row: the exception raised ("" for
\* none), the signals and the total
ScoreArticleOutcome(self, fs, article, recent_articles, source_category, now) ==
    IF PreferenceRaises(article)
    THEN [raised |-> "AttributeError", scores |-> <<>>, total |-> DblZero]
    ELSE TotalledOutcome(ComponentScores(self, fs, article, recent_articles,
                                         source_category, now),
                         self.config)

\* ArticleScore(article_id=article["id"], total_score=..., ...): the record
\* built from the outcome o of the signals
ArticleScore(article, o) ==
    [article_id |-> article.id,
     total_score |-> o.total,
     recency_score |-> o.scores.recency,
     source_score |-> o.scores.source,
     topic_score |-> o.scores.topic,
     novelty_score |-> o.scores.novelty,
     preference_score |-> o.scores.preference]

\* ArticleRanker.score_article: the ArticleScore returned
score_article(self, fs, article, recent_articles, source_category, now) ==
    ArticleScore(article,
                 ScoreArticleOutcome(self, fs, article, recent_articles,
                                     source_category, now))

\* source_categories of rank_articles: source name -> article.get("category", "")
\* of the last row of the source
SourceCategoryMap(rows) ==
    [n \in {rows[i].source_name : i \in DOMAIN rows} |->
        LET last == CHOOSE i \in DOMAIN rows :
                        /\ rows[i].source_name = n
                        /\ \A j \in DOMAIN rows : rows[j].source_name = n => j <= i
        IN  DictGet(rows[last], "category", "")]

\* the scoring loop of rank_articles: the outcome of score_article per row
ScoreOutcomes(self, fs, arts, recent_articles, now) ==
    SubSeq([i \in DOMAIN arts |->
               ScoreArticleOutcome(self, fs, arts[i], recent_articles,
                                   SourceCategoryMap(arts)[arts[i].source_name], now)],
           1, Len(arts))

\* the exception that leaves the scoring loop: that of the first row whose
\* score_article raises ("" when none does)
RankRaises(outcomes) ==
    LET raising == {i \in DOMAIN outcomes : outcomes[i].raised # ""}
    IN  IF raising = {} THEN ""
        ELSE outcomes[CHOOSE i \in raising : \A j \in raising : i <= j].raised

\* the threshold test left out: every score is appended
PassesThreshold_NoFilter(score, min_score) == TRUE

\* `if score.total_score >= min_score`, min_score in thousandths as written
PassesThreshold(score, min_score) == DblLessEq(Dbl(min_score), score.total_score)

\* the loop over the articles: `scores` holds the ArticleScore of every
\* article in input order, and those passing the threshold are kept
ScoredArticles(scores, min_score) ==
    SelectSeq(scores, LAMBDA s : PassesThreshold(s, min_score))

\* an unstable descending sort: equal keys end up in reverse input order
SortsBefore_Unstable(x, y) == DblLess(y.total_score, x.total_score)

\* where list.sort(key=total_score, reverse=True) puts x relative to y when
\* x precedes y in the list: before y unless y's key is strictly greater
\* (the sort is stable)
SortsBefore(x, y) == DblLessEq(y.total_score, x.total_score)

RECURSIVE InsertSorted(_, _)
InsertSorted(x, s) ==
    IF s = <<>> THEN <<x>>
    ELSE IF SortsBefore(x, Head(s)) THEN <<x>> \o s
    ELSE <<Head(s)>> \o InsertSorted(x, Tail(s))

\* scored_articles.sort(key=lambda x: x.total_score, reverse=True)
RECURSIVE SortByTotalDesc(_)
SortByTotalDesc(s) ==
    IF s = <<>> THEN <<>>
    ELSE InsertSorted(Head(s), SortByTotalDesc(Tail(s)))

\* the budget applied to the input list, before filtering and sorting
SelectTop_TruncateFirst(scores, max_stories, min_score) ==
    SortByTotalDesc(ScoredArticles(PySlice(scores, max_stories), min_score))

\* selected = the sorted, thresholded scores cut to max_stories
SelectTop(scores, max_stories, min_score) ==
    PySlice(SortByTotalDesc(ScoredArticles(scores, min_score)), max_stories)

\* the score payload written for a selected article
ScoreJson(score) ==
    [total |-> score.total_score, recency |-> score.recency_score,
     source |-> score.source_score, topic |-> score.topic_score,
     novelty |-> score.novelty_score, preference |-> score.preference_score]

\* UPDATE run_articles SET included_in_rank = TRUE, score_json = %s
\*   WHERE run_id = %s AND article_id = %s, for every selected score
WriteScores(ra, rid, selected) ==
    [k \in DOMAIN ra |->
        IF k[1] = rid /\ \E i \in DOMAIN selected : selected[i].article_id = k[2]
        THEN LET i == CHOOSE i \in DOMAIN selected : selected[i].article_id = k[2]
             IN  [included_in_rank |-> TRUE, score_json |-> <<ScoreJson(selected[i])>>]
        ELSE ra[k]]

\* rank_articles left by the exception e, before any UPDATE
RankFailed(db, arts, recent, e, aborted) ==
    [raised |-> e, tx_aborted |-> aborted, articles |-> arts,
     recent_articles |-> recent.rows, total_articles |-> 0,
     ranked_articles |-> <<>>, recent_loaded |-> ~aborted,
     run_articles |-> db.run_articles]

\* rank_articles returning with the scores `selected` written
RankReturned(db, arts, recent, rid, selected) ==
    [raised |-> NoneStr, tx_aborted |-> FALSE, articles |-> arts,
     recent_articles |-> recent.rows,
     total_articles |-> Len(arts),
     ranked_articles |-> selected,
     recent_loaded |-> TRUE,
     run_articles |-> WriteScores(db.run_articles, rid, selected)]

\* the ArticleScore of every row, in input order
ArticleScores(arts, outcomes) ==
    SubSeq([i \in DOMAIN arts |-> ArticleScore(arts[i], outcomes[i])], 1, Len(arts))

\* rank_articles from the scoring loop on, `outcomes` being the outcome of
\* score_article per row
RankScored(db, arts, recent, rid, max_stories, min_score, outcomes) ==
    IF RankRaises(outcomes) # "" THEN RankFailed(db, arts, recent, RankRaises(outcomes), FALSE)
    ELSE RankReturned(db, arts, recent, rid,
                      SelectTop(ArticleScores(arts, outcomes), max_stories, min_score))

\* rank_articles from the window load on, for the row list `arts` and the
\* outcome `recent` of get_recent_articles: the exception raised (NoneStr for
\* none), whether it left the transaction aborted, the RankingResult fields
\* and the run_articles table afterwards
RankLoaded(self, db, arts, recent, rid, max_stories, min_score, now) ==
    IF recent.raised # NoneStr THEN RankFailed(db, arts, recent, recent.raised, TRUE)
    ELSE RankScored(db, arts, recent, rid, max_stories, min_score,
                    ScoreOutcomes(self, db.files, arts, recent.rows, now))

\* rank_articles without the early return for an empty article list: the
\* window of recent articles is loaded before the (empty) scoring loop
RankArticles_NoEarlyReturn(self, db, rid, max_stories, min_score, now, binding) ==
    UNION {
        {RankLoaded(self, db, arts, recent, rid, max_stories, min_score, now) :
            recent \in GetRecentArticles(db.articles, now, RecentLimit,
                                         novelty_window_runs * 7, binding)}
        : arts \in GetRunArticles(db.sources, db.articles, db.run_articles, rid, FALSE)}

\* ArticleRanker.rank_articles(conn, run_id, max_stories, min_score) on the
\* database db = [sources, articles, run_articles, files]: the outcomes, one
\* per row order get_run_articles and get_recent_articles may return
RankArticles(self, db, rid, max_stories, min_score, now, binding) ==
    UNION {
        IF arts = <<>>
        THEN {[raised |-> NoneStr, tx_aborted |-> FALSE, articles |-> arts,
               recent_articles |-> <<>>, total_articles |-> 0,
               ranked_articles |-> <<>>, recent_loaded |-> FALSE,
               run_articles |-> db.run_articles]}
        ELSE {RankLoaded(self, db, arts, recent, rid, max_stories, min_score, now) :
                recent \in GetRecentArticles(db.articles, now, RecentLimit,
                                             novelty_window_runs * 7, binding)}
        : arts \in GetRunArticles(db.sources, db.articles, db.run_articles, rid, FALSE)}

\* rank_articles raising in its k-th UPDATE run_articles: the table with the
\* writes made until then
RankArticlesRaising(ra, rid, selected, k) == WriteScores(ra, rid, SubSeq(selected, 1, k - 1))

----------------------------------------------------------------------------
(* Configuration files: config/loader.py *)

\* the `ranking` sections tried in config.yaml
CliRawConfigs ==
    {raw \in RawConfigs : DOMAIN raw \in {{}, {"recency_weight"}, {"novelty_weight"}}}

\* config.yaml: absent, not parseable as YAML, or a mapping with its ranking section
MainConfigFiles ==
    {[exists |-> FALSE, yaml_ok |-> TRUE, ranking |-> <<>>],
     [exists |-> TRUE, yaml_ok |-> FALSE, ranking |-> <<>>]}
    \cup {[exists |-> TRUE, yaml_ok |-> TRUE, ranking |-> raw] : raw \in CliRawConfigs}

\* load_config: the exception raised ("" for none) and the ranking weights
load_config(file) ==
    IF ~file.exists
    THEN [raised |-> "FileNotFoundError", config |-> DefaultRankingConfig]
    ELSE IF ~file.yaml_ok
    THEN [raised |-> "ValueError", config |-> DefaultRankingConfig]
    ELSE IF ~LoadRankingConfig(file.ranking).accepted
    THEN [raised |-> "ValueError", config |-> DefaultRankingConfig]
    ELSE [raised |-> "", config |-> LoadRankingConfig(file.ranking).config]

\* an entry of sources.yaml: a valid source, enabled or not, or one that
\* fails SourceConfig validation
SourceEntries == {"enabled", "disabled", "invalid"}

\* sources.yaml: absent, not parseable as YAML, or a list of entries
SourcesFiles ==
    {[exists |-> FALSE, yaml_ok |-> TRUE, entries |-> <<>>],
     [exists |-> TRUE, yaml_ok |-> FALSE, entries |-> <<>>]}
    \cup {[exists |-> TRUE, yaml_ok |-> TRUE, entries |-> e] :
            e \in UNION {[1..k -> SourceEntries] : k \in 0..MaxSources}}

\* SourceConfig(**source_data) for the i-th entry of sources.yaml
SourceConfig(i, entry) ==
    [name |-> "feed" \o ToString(i), category |-> "news", weight |-> One,
     enabled |-> entry = "enabled"]

\* load_sources: the exception raised (its message, "" for none) and the
\* sources returned; an entry that fails validation is skipped
load_sources(file) ==
    IF ~file.exists
    THEN [raised |-> "Sources file not found", sources |-> <<>>]
    ELSE IF ~file.yaml_ok
    THEN [raised |-> "Invalid YAML in sources file", sources |-> <<>>]
    ELSE LET valid == SelectSeq([i \in DOMAIN file.entries |-> <<i, file.entries[i]>>],
                                LAMBDA e : e[2] # "invalid")
         IN  [raised |-> "",
              sources |-> [k \in DOMAIN valid |-> SourceConfig(valid[k][1], valid[k][2])]]

\* enabled_sources = [s for s in sources if s.enabled]
EnabledSources(loaded) == SelectSeq(loaded, LAMBDA s : s.enabled)

\* the ranker stage 5 builds: ArticleRanker(config=config.ranking,
\* workspace_root, preferences=config.preferences.model_dump()), from the
\* configuration the command loaded (the defaults when none is modelled)
PipelineRanker ==
    ArticleRanker(IF sc.phase = "cli" THEN load_config(sc.main_config).config
                  ELSE DefaultRankingConfig,
                  PreferencesModelDump(<<>>))

----------------------------------------------------------------------------
(* Stage machine: pipeline/orchestrator.py *)

\* PipelineStage.__init__
NewStage == [start_time |-> None, end_time |-> None, success |-> FALSE, error |-> NoneStr]

\* PipelineStage.start
StageStart(st, now) == [st EXCEPT !.start_time = now]

\* PipelineStage.complete
StageComplete(st, now) == [st EXCEPT !.end_time = now, !.success = TRUE]

\* PipelineStage.fail
StageFail(st, now, error) ==
    [st EXCEPT !.end_time = now, !.success = FALSE, !.error = error]

\* where control goes when the try block of stage k ends normally
AfterComplete(k) ==
    IF k < NumStages THEN [pc |-> "start", cur |-> k + 1]
    ELSE [pc |-> "update", cur |-> k]

\* an except block without its `return False`: control falls to the next stage
AfterFail_FallThrough(k) ==
    IF k < NumStages THEN [pc |-> "start", cur |-> k + 1]
    ELSE [pc |-> "update", cur |-> k]

\* where control goes from the except block of stage k: `return False`
AfterFail(k) == [pc |-> "update", cur |-> k]

\* `return all(stage.success for stage in self.stages)`
AllSucceeded(sts) == \A i \in DOMAIN sts : sts[i].success

\* the status run passes to update_run_status
FinalStatus(success) == IF success THEN "success" ELSE "failed"

\* final_stats of run
FinalStats(p, sts) ==
    [max_items |-> p.max_items, max_stories |-> p.max_stories,
     stages |-> [i \in DOMAIN sts |-> sts[i].success]]

\* `if self.start_time and self.end_time`: a time that is set and not 0.0
TimeSet(t) == t # None /\ t # 0

\* PipelineStage.duration, in seconds
StageDuration(st) ==
    IF TimeSet(st.start_time) /\ TimeSet(st.end_time) THEN st.end_time - st.start_time
    ELSE 0

\* _save_stage_stats: the entry of a stage in pipeline_stats.json
StatsEntry(st) ==
    [duration |-> StageDuration(st), success |-> st.success, error |-> st.error]

\* _print_summary: the row of a stage in the summary table; the duration is
\* a whole number of seconds, which f"{duration:.1f}s" writes with ".0"
SummaryRow(st) ==
    [status   |-> IF st.success THEN "ok" ELSE "failed",
     duration |-> IF StageDuration(st) > 0 THEN ToString(StageDuration(st)) \o ".0s"
                  ELSE "-",
     details  |-> IF st.success THEN "stats"
                  ELSE IF st.error \in {NoneStr, ""} THEN "Failed" ELSE st.error]

\* _print_summary: the names after "Failed stages:" in the final panel
FailedStagesPanel(sts) ==
    IF \A i \in DOMAIN sts : sts[i].success THEN {}
    ELSE {StageNames[i] : i \in {j \in DOMAIN sts : ~sts[j].success}}

\* what the finally block of run reports
Report(sts) ==
    [written |-> TRUE,
     stats_file |-> [i \in DOMAIN sts |-> StatsEntry(sts[i])],
     summary |-> [i \in DOMAIN sts |-> SummaryRow(sts[i])],
     failed_stages |-> FailedStagesPanel(sts)]

\* the locals of _execute_pipeline, and the state of the connection's
\* transaction: the tables as the uncommitted writes of a stage that raised
\* left them (pending), and whether a statement was rejected (tx_aborted);
\* time_step is the number of seconds from one reading of time.time() to the
\* next during the invocation
EmptyCtx == [enabled |-> 0, enabled_sources |-> <<>>, source_map |-> <<>>,
             all_items |-> <<>>, fetched |-> <<>>, notes |-> <<>>,
             bullets |-> <<>>, script |-> "", api_failed |-> {}, raised |-> NoneStr,
             pending |-> <<>>, tx_aborted |-> FALSE, time_step |-> 0]

\* the seconds between two readings of time.time(): none, when the stages
\* are over before the clock moves, or one
TimeSteps == {0, 1}

SecondsPerHour == 60 * 60

\* time.time() as the stages of the invocation read it: reading n (from 0)
TimeReading(n) == clock * SecondsPerHour + ctx.time_step * n

\* time.time() in stage.start() of stage k, and in its complete() or fail()
StartReading(k) == TimeReading(2 * (k - 1))
EndReading(k) == TimeReading(2 * k - 1)

\* OpenAIProvider.summarize_article: the bullets returned.  A failed API call
\* is caught inside the provider and reported in the text of the bullet.
SummarizeArticle(api_ok) ==
    IF api_ok THEN <<"summary">> ELSE <<"Failed to summarize: api error">>

\* OpenAIProvider.generate_script: the script text returned, likewise
GenerateScript(api_ok) ==
    IF api_ok THEN "script" ELSE "Failed to generate script: api error"

\* no configuration loaded and no article scored yet
NoScore == [phase |-> "none"]

\* nothing reported yet
NoReport == [written |-> FALSE]

\* no caller inside create_run
NoSessions == <<>>

\* no gather in progress
NoFetch == [kind |-> "none"]

NoRank == [called |-> FALSE, raised |-> NoneStr,
           ranker |-> ArticleRanker(DefaultRankingConfig, <<>>),
           max_stories |-> 0, min_score |-> 0,
           articles |-> <<>>, recent_articles |-> <<>>,
           ranked_articles |-> <<>>, total_articles |-> 0,
           recent_loaded |-> FALSE]

\* the database a connection reads
Database ==
    [sources |-> sources, articles |-> articles, run_articles |-> run_articles,
     files |-> files]

\* what rank_articles leaves in its locals
RankLocals(self, max_stories, min_score, r) ==
    [called |-> r.raised = NoneStr, raised |-> r.raised, ranker |-> self,
     max_stories |-> max_stories, min_score |-> min_score,
     articles |-> r.articles, recent_articles |-> r.recent_articles,
     ranked_articles |-> r.ranked_articles,
     total_articles |-> r.total_articles,
     recent_loaded |-> r.recent_loaded]

\* stage k ends through stage.complete(...)
CompleteStage(k) ==
    /\ stages' = [stages EXCEPT ![k] = StageComplete(@, EndReading(k))]
    /\ pc' = AfterComplete(k).pc
    /\ cur' = AfterComplete(k).cur
    /\ ret' = IF k = NumStages THEN AllSucceeded(stages') ELSE ret

\* stage k ends through stage.fail(str(e)); return False
FailStage(k, error) ==
    /\ stages' = [stages EXCEPT ![k] = StageFail(@, EndReading(k), error)]
    /\ pc' = AfterFail(k).pc
    /\ cur' = AfterFail(k).cur
    /\ ret' = FALSE

\* cli/run.py run_command: a fresh orchestrator is built and run is called
NewInvocation ==
    /\ pc \in {"idle", "done"}
    /\ invocations < MaxInvocations
    /\ \E d \in Dates, a \in RunArgs :
          params' = [run_date |-> d, max_items |-> a.max_items,
                     max_stories |-> a.max_stories]
    /\ invocations' = invocations + 1
    /\ stages' = [i \in 1..NumStages |-> NewStage]
    /\ run_id' = None
    /\ result' = "none"
    /\ ret' = FALSE
    /\ cur' = 0
    /\ \E step \in TimeSteps : ctx' = [EmptyCtx EXCEPT !.time_step = step]
    /\ pc' = "enter"
    /\ clock' = clock + 1
    /\ report' = NoReport
    /\ rk' = NoRank
    /\ UNCHANGED <<dbVars, sc, concVars, storeVars>>

\* run, up to the try block: the run directory is created
RunEnter ==
    /\ pc = "enter"
    /\ pc' = "connect"
    /\ UNCHANGED <<dbVars, clock, cur, stages, run_id, result, ret, params, ctx,
                   invocations, rk, sc, report, concVars, storeVars>>

\* _create_run_artifacts_dir raises (mkdir fails): outside the try block
RunEnterRaises ==
    /\ pc = "enter"
    /\ result' = "raised"
    /\ pc' = "done"
    /\ UNCHANGED <<dbVars, clock, cur, stages, run_id, ret, params, ctx,
                   invocations, rk, sc, report, concVars, storeVars>>

\* get_connection and RunManager.create_run
CreateRun ==
    /\ pc = "connect"
    /\ \E existing \in ExistingRunIds(runs, params.run_date) :
          /\ runs' = CreateRunTable(runs, existing, params.run_date, clock)
          /\ run_id' = CreateRunId(runs, existing)
    /\ pc' = "start"
    /\ cur' = 1
    /\ UNCHANGED <<articles, run_articles, clock, stages, result, ret, params, ctx,
                   invocations, rk, sc, report, concVars, storeVars>>

\* get_connection or create_run raises: `except Exception: return False`
CreateRunRaises ==
    /\ pc = "connect"
    /\ result' = "false"
    /\ pc' = "finally"
    /\ UNCHANGED <<dbVars, clock, cur, stages, run_id, ret, params, ctx,
                   invocations, rk, sc, report, concVars, storeVars>>

\* stage = self.stages[k]; stage.start()
StartStage ==
    /\ pc = "start"
    /\ stages' = [stages EXCEPT ![cur] = StageStart(@, StartReading(cur))]
    /\ pc' = "body"
    /\ UNCHANGED <<dbVars, clock, cur, run_id, result, ret, params, ctx,
                   invocations, rk, sc, report, concVars, storeVars>>

\* the counters of process_articles before its loop
NewStats(fetched) ==
    [total |-> Len(fetched), new |-> 0, duplicates |-> 0, failed |-> 0, stored |-> 0]

\* the sources load_sources returns for a sources.yaml of n enabled sources
ConfiguredSources(n) == [i \in 1..n |-> SourceConfig(i, "enabled")]

\* the numbers of sources of a sources.yaml whose synchronisation is cut
\* short by a raise
RaisingSourceCounts == {1, 2}

\* the lists load_sources may have handed to sync_sources when it raises: the
\* sources of the sources file when the command is modelled with its files
SourcesBeingSynced ==
    IF sc.phase = "cli"
    THEN (IF load_sources(sc.sources_file).raised = ""
          THEN {load_sources(sc.sources_file).sources} ELSE {})
    ELSE {ConfiguredSources(n) : n \in RaisingSourceCounts}

\* the tables as the uncommitted writes of the transaction left them: none
\* when they are the committed ones
Pending(srcs, arts, ra) ==
    IF srcs = sources /\ arts = articles /\ ra = run_articles THEN <<>>
    ELSE <<[sources |-> srcs, articles |-> arts, run_articles |-> ra]>>

\* what the stage under way has written when a collaborator raises in it:
\* the files on disk and the uncommitted tables.  Nothing; or, in stage 1,
\* the sources sync_sources wrote before the INSERT that raises; or, in
\* stage 4, the writes of process_articles up to the statement or the file
\* write that raises; or, in stage 5, the UPDATEs of rank_articles made
\* before the one that raises.
WritesBeforeRaise ==
    {[files |-> files, pending |-> <<>>]}
    \cup (IF cur = 1
          THEN UNION {
                 {[files |-> files,
                   pending |-> Pending(SyncSourcesRaising(sources, loaded, k),
                                       articles, run_articles)] :
                    k \in DOMAIN loaded}
                 : loaded \in SourcesBeingSynced}
          ELSE {})
    \cup (IF cur = 4
          THEN {[files |-> s.files,
                 pending |-> Pending(sources, s.articles, s.run_articles)] :
                s \in UNION {ProcessArticlesRaising(
                                [articles |-> articles, run_articles |-> run_articles,
                                 files |-> files, stats |-> NewStats(ctx.fetched)],
                                ctx.fetched, ctx.source_map, run_id,
                                params.run_date, clock, k) :
                             k \in DOMAIN ctx.fetched}}
          ELSE {})
    \cup (IF cur = 5
          THEN UNION {
                 {[files |-> files,
                   pending |-> Pending(sources, articles,
                                       RankArticlesRaising(run_articles, run_id,
                                                           r.ranked_articles, k))] :
                    k \in 2..Len(r.ranked_articles)}
                 : r \in RankArticles(PipelineRanker, Database, run_id,
                                      params.max_stories, DefaultMinScore, clock, "client")}
          ELSE {})

\* the stages whose body sends statements to the database
DatabaseStages == {1, 4, 5, 6}

\* whether the exception of stage k is a statement the database rejected,
\* which leaves the transaction aborted
StatementRejected(k) == IF k \in DatabaseStages THEN BOOLEAN ELSE {FALSE}

\* the except block of any stage: a collaborator raised.  The uncommitted
\* writes stay in the open transaction; when the database rejected the
\* statement the transaction is aborted, and nothing of it can be committed.
StageRaises ==
    /\ pc = "body"
    /\ \E w \in WritesBeforeRaise, e \in ErrorMessages, aborted \in StatementRejected(cur) :
          /\ FailStage(cur, e)
          /\ files' = w.files
          /\ ctx' = [ctx EXCEPT !.raised = e,
                                !.pending = w.pending,
                                !.tx_aborted = aborted]
    /\ UNCHANGED <<dbVars, sources, clock, run_id, result, params, invocations, rk, sc,
                   report, concVars>>

\* stage 1 from the sources loaded on: the enabled sources are kept and
\* sync_sources writes all sources to the table and commits
SyncLoadedSources(loaded) ==
    LET synced == SyncSources(sources, <<>>, loaded)
    IN  /\ sources' = synced.sources
        /\ ctx' = [ctx EXCEPT !.enabled = Len(EnabledSources(loaded)),
                              !.enabled_sources = EnabledSources(loaded),
                              !.source_map = synced.source_map]
        /\ CompleteStage(1)

\* Stage 1: load_sources and sync_sources
SourcesStage ==
    /\ pc = "body" /\ cur = 1
    /\ \E n \in SourceCounts : SyncLoadedSources(ConfiguredSources(n))
    /\ UNCHANGED <<dbVars, files, clock, run_id, result, params, invocations, rk, sc,
                   report, concVars>>

\* a FeedResult of the source: failed, or the items of the feed, each with
\* the name of the source
FeedChoices(source) ==
    {[success |-> FALSE, items |-> <<>>]}
    \cup {[success |-> TRUE,
           items |-> [i \in 1..k |-> [link |-> i, source_name |-> source.name]]] :
            k \in FeedLens}

\* fetch_feeds_sync(enabled_sources): one FeedResult per source
FeedResults(enabled_sources) ==
    {fr \in [DOMAIN enabled_sources ->
                UNION {FeedChoices(enabled_sources[i]) : i \in DOMAIN enabled_sources}] :
        \A i \in DOMAIN enabled_sources : fr[i] \in FeedChoices(enabled_sources[i])}

\* items_per_feed without the division by the number of sources
ItemsPerFeed_Undivided(max_items, n) == Max(1, max_items)

\* items_per_feed = max(1, max_items // len(enabled_sources))
ItemsPerFeed(max_items, n) == Max(1, max_items \div n)

\* the collection loop of the rss stage and `all_items[:max_items]`
CollectItems(feed_results, max_items, n) ==
    PySlice(
        Concat([i \in DOMAIN feed_results |->
                    IF feed_results[i].success
                    THEN PySlice(feed_results[i].items, ItemsPerFeed(max_items, n))
                    ELSE <<>>]),
        max_items)

\* Stage 2 with no enabled source: fetch_feeds_sync returns [] and
\* `max_items // len(enabled_sources)` raises ZeroDivisionError
RssStageNoSources ==
    /\ pc = "body" /\ cur = 2
    /\ ctx.enabled = 0
    /\ FailStage(2, "integer division or modulo by zero")
    /\ ctx' = [ctx EXCEPT !.raised = "integer division or modulo by zero"]
    /\ UNCHANGED <<dbVars, clock, run_id, result, params, invocations, rk, sc, report, concVars, storeVars>>

\* Stage 2: fetch the feeds and collect the items
RssStage ==
    /\ pc = "body" /\ cur = 2
    /\ ctx.enabled > 0
    /\ \E feed_results \in FeedResults(ctx.enabled_sources) :
          LET all_items == CollectItems(feed_results, params.max_items, ctx.enabled)
          IN  IF all_items = <<>>
              THEN /\ FailStage(2, "No articles found in RSS feeds")
                   /\ ctx' = [ctx EXCEPT !.raised = "No articles found in RSS feeds"]
              ELSE /\ CompleteStage(2)
                   /\ ctx' = [ctx EXCEPT !.all_items = all_items]
    /\ UNCHANGED <<dbVars, clock, run_id, result, params, invocations, rk, sc, report, concVars, storeVars>>

\* the ArticleContent fetch_article returns for a feed item: the extracted
\* text with its hash, or, for a fetch that failed (an HTTP error, a paywall,
\* nothing extracted), the empty text with the empty hash
FetchedArticle(item, success) ==
    [canonical_url |-> Content(item.link).canonical_url,
     title         |-> Content(item.link).title,
     text          |-> IF success THEN Content(item.link).text ELSE "",
     outlet        |-> Content(item.link).outlet,
     published_at  |-> Content(item.link).published_at,
     content_hash  |-> IF success THEN Content(item.link).content_hash ELSE "",
     source_name   |-> item.source_name,
     fetch_success |-> success]

\* Stage 3: fetch_articles_sync gives one ArticleContent per item, in order
ArticlesStage ==
    /\ pc = "body" /\ cur = 3
    /\ \E ok \in [DOMAIN ctx.all_items -> BOOLEAN] :
          ctx' = [ctx EXCEPT !.fetched =
                    [i \in DOMAIN ctx.all_items |->
                        FetchedArticle(ctx.all_items[i], ok[i])]]
    /\ CompleteStage(3)
    /\ UNCHANGED <<dbVars, clock, run_id, result, params, invocations, rk, sc, report, concVars, storeVars>>

\* Stage 4: ArticleStorage.process_articles, which commits at its end
StorageStage ==
    /\ pc = "body" /\ cur = 4
    /\ \E out \in ProcessArticles(
                    [articles |-> articles, run_articles |-> run_articles,
                     files |-> files, stats |-> NewStats(ctx.fetched)],
                    ctx.fetched, ctx.source_map, run_id, params.run_date, clock) :
          /\ articles' = out.articles
          /\ run_articles' = out.run_articles
          /\ files' = out.files
    /\ CompleteStage(4)
    /\ UNCHANGED <<runs, sources, clock, run_id, result, params, ctx, invocations, rk, sc,
                   report, concVars>>

\* Stage 5: ArticleRanker(config.ranking, workspace_root, preferences)
\* .rank_articles(conn, run_id, max_stories): it returns and the stage
\* completes, or it raises and the stage fails with the message
RankingStage ==
    /\ pc = "body" /\ cur = 5
    /\ \E binding \in ParameterBindings :
       \E r \in RankArticles(PipelineRanker, Database, run_id,
                             params.max_stories, DefaultMinScore, clock, binding) :
          /\ rk' = RankLocals(PipelineRanker, params.max_stories, DefaultMinScore, r)
          /\ run_articles' = r.run_articles
          /\ IF r.raised = NoneStr
             THEN /\ CompleteStage(5)
                  /\ ctx' = ctx
             ELSE /\ FailStage(5, r.raised)
                  /\ ctx' = [ctx EXCEPT !.raised = r.raised,
                                        !.tx_aborted = r.tx_aborted]
    /\ UNCHANGED <<runs, articles, clock, run_id, result, params, invocations,
                   sc, report, concVars, storeVars>>

\* the section titles of the show notes, in the order of the notes
Sections ==
    <<"Deployments & Implementations", "Product Launches & Updates",
      "Research & Breakthroughs", "Industry & Business", "Policy & Governance">>

\* any(word in text for word in words)
AnyWordIn(words, text) == \E word \in words : Contains(text, word)

\* the keywords of the sections
SectionWords ==
    <<{"deploy", "production", "enterprise", "implementation", "rollout", "launch"},
      {"releases", "announces", "unveils", "launches", "introduces", "available"},
      {"research", "study", "paper", "breakthrough", "discovery", "mit", "stanford"},
      {"funding", "investment", "acquisition", "partnership", "revenue", "ipo"},
      {"regulation", "policy", "law", "government", "congress", "senate"}>>

\* ShowNotesGenerator._categorize_articles: the section an article is put in
Categorize(fs, article) ==
    LET title_lower == Lower(article.title)
        content_lower == PySlice(Lower(LoadArticleContent(fs, article)), 500)
        source_category == Lower(DictGet(article, "category", ""))
    IN  IF AnyWordIn(SectionWords[1], title_lower) \/ AnyWordIn(SectionWords[1], content_lower)
        THEN 1
        ELSE IF AnyWordIn(SectionWords[2], title_lower) THEN 2
        ELSE IF AnyWordIn(SectionWords[3], title_lower) \/ source_category # "" THEN 3
        ELSE IF AnyWordIn(SectionWords[4], title_lower) \/ AnyWordIn(SectionWords[4], content_lower)
        THEN 4
        ELSE IF AnyWordIn(SectionWords[5], title_lower) \/ AnyWordIn(SectionWords[5], content_lower)
        THEN 5
        ELSE 1

\* the articles of section s, in the order of the row list; cats holds the
\* section of every article
RECURSIVE OfSection(_, _, _)
OfSection(arts, cats, s) ==
    IF arts = <<>> THEN <<>>
    ELSE (IF Head(cats) = s THEN <<Head(arts)>> ELSE <<>>)
            \o OfSection(Tail(arts), Tail(cats), s)

\* the articles section by section
BySection(arts, cats) ==
    Concat(SubSeq([s \in DOMAIN Sections |-> OfSection(arts, cats, s)],
                  1, Len(Sections)))

\* the articles in the order generate_show_notes summarizes them: section
\* by section, in the order of the row list within a section
CategorizedArticles(fs, arts) ==
    BySection(arts, SubSeq([i \in DOMAIN arts |-> Categorize(fs, arts[i])], 1, Len(arts)))

\* Stage 6: generate_show_notes reads get_run_articles(only_ranked=True) and
\* summarizes each article through the LLM provider, one call per article
ShowNotesStage ==
    /\ pc = "body" /\ cur = 6
    /\ \E arts \in GetRunArticles(sources, articles, run_articles, run_id, TRUE) :
       LET ordered == CategorizedArticles(files, arts)
       IN  \E api_ok \in [DOMAIN ordered -> BOOLEAN] :
              ctx' = [ctx EXCEPT
                        !.notes = [i \in DOMAIN ordered |-> ordered[i].id],
                        !.bullets = [i \in DOMAIN ordered |-> SummarizeArticle(api_ok[i])],
                        !.api_failed = IF \A i \in DOMAIN ordered : api_ok[i]
                                       THEN @ ELSE @ \cup {6}]
    /\ CompleteStage(6)
    /\ UNCHANGED <<dbVars, clock, run_id, result, params, invocations, rk, sc, report, concVars, storeVars>>

\* Stage 7: generate_script through the LLM provider, and the script files
ScriptStage ==
    /\ pc = "body" /\ cur = 7
    /\ \E api_ok \in BOOLEAN :
          ctx' = [ctx EXCEPT !.script = GenerateScript(api_ok),
                             !.api_failed = IF api_ok THEN @ ELSE @ \cup {7}]
    /\ CompleteStage(7)
    /\ UNCHANGED <<dbVars, clock, run_id, result, params, invocations, rk, sc, report, concVars, storeVars>>

\* run_manager.update_run_status(...); return success.  Its commit makes the
\* uncommitted writes of a stage that raised permanent with the status; in
\* an aborted transaction the UPDATE is rejected.
UpdateRun ==
    /\ pc = "update"
    /\ ~ctx.tx_aborted
    /\ runs' = UpdateRunTable(runs, run_id, FinalStatus(ret),
                              <<FinalStats(params, stages)>>, clock)
    /\ sources' = IF ctx.pending = <<>> THEN sources ELSE ctx.pending[1].sources
    /\ articles' = IF ctx.pending = <<>> THEN articles ELSE ctx.pending[1].articles
    /\ run_articles' = IF ctx.pending = <<>> THEN run_articles
                       ELSE ctx.pending[1].run_articles
    /\ ctx' = [ctx EXCEPT !.pending = <<>>]
    /\ result' = IF ret THEN "true" ELSE "false"
    /\ pc' = "finally"
    /\ UNCHANGED <<files, clock, cur, stages, run_id, ret, params,
                   invocations, rk, sc, report, concVars>>

\* update_run_status raises: `except Exception: return False`; the exception
\* leaves the connection block, which rolls the transaction back: the rows
\* the stages left uncommitted are gone, the ids they drew stay drawn
UpdateRunRaises ==
    /\ pc = "update"
    /\ result' = "false"
    /\ pc' = "finally"
    /\ sources' = IF ctx.pending = <<>> THEN sources
                  ELSE RolledBack(sources, ctx.pending[1].sources, ConsumedId)
    /\ articles' = IF ctx.pending = <<>> THEN articles
                   ELSE RolledBack(articles, ctx.pending[1].articles, ConsumedArticleId)
    /\ ctx' = [ctx EXCEPT !.pending = <<>>]
    /\ UNCHANGED <<runs, run_articles, files, clock, cur, stages, run_id, ret, params,
                   invocations, rk, sc, report, concVars>>

\* finally: _save_stage_stats and _print_summary
Finally ==
    /\ pc = "finally"
    /\ pc' = "done"
    /\ report' = Report(stages)
    /\ UNCHANGED <<dbVars, clock, cur, stages, run_id, result, ret, params, ctx,
                   invocations, rk, sc, concVars, storeVars>>

\* finally: _save_stage_stats raises (the stats file cannot be written); the
\* exception replaces the pending return value
FinallyRaises ==
    /\ pc = "finally"
    /\ result' = "raised"
    /\ pc' = "done"
    /\ UNCHANGED <<dbVars, clock, cur, stages, run_id, ret, params, ctx,
                   invocations, rk, sc, report, concVars, storeVars>>

Init ==
    /\ runs = <<>>
    /\ articles = <<>>
    /\ run_articles = <<>>
    /\ sources = <<>>
    /\ files = <<>>
    /\ clock = 0
    /\ pc = "idle"
    /\ cur = 0
    /\ stages = [i \in 1..NumStages |-> NewStage]
    /\ run_id = None
    /\ result = "none"
    /\ ret = FALSE
    /\ params = [run_date |-> "2024-01-01", max_items |-> 1, max_stories |-> 1]
    /\ ctx = EmptyCtx
    /\ invocations = 0
    /\ rk = NoRank
    /\ sc = NoScore
    /\ report = NoReport
    /\ sessions = NoSessions
    /\ fetch = NoFetch

Next ==
    \/ NewInvocation
    \/ RunEnter
    \/ RunEnterRaises
    \/ CreateRun
    \/ CreateRunRaises
    \/ StartStage
    \/ StageRaises
    \/ SourcesStage
    \/ RssStageNoSources
    \/ RssStage
    \/ ArticlesStage
    \/ StorageStage
    \/ RankingStage
    \/ ShowNotesStage
    \/ ScriptStage
    \/ UpdateRun
    \/ UpdateRunRaises
    \/ Finally
    \/ FinallyRaises

Spec == Init /\ [][Next]_vars

----------------------------------------------------------------------------
(* rank_articles on its own: a run with a bounded article population linked  *)
(* to it, ranked once with a budget and a threshold drawn from small sets.   *)

MinScores == {0, DefaultMinScore, 500}

\* the reading of the clock during the ranking pass, in hours
NowHours == 1206

\* the sources table: three feeds of different weights
RankSources ==
    <<[name |-> "feed1", category |-> "news", weight |-> 950, enabled |-> TRUE],
      [name |-> "feed2", category |-> "news", weight |-> 400, enabled |-> TRUE],
      [name |-> "feed3", category |-> "news", weight |-> 150, enabled |-> TRUE]>>

\* the preferences the ranker is built with
RankPreferences == [boost_keywords |-> {"GPT"}, suppress_keywords |-> {"ads"}]

\* a title of more than three words, all suppress-keyword matches counted
SuppressedTitle == "Ads ads ads in the news"

\* the articles a run may hold: a fresh one of the best source with boost
\* keywords in title and body; a fresh one and one 600 hours old with the
\* suppressed title; and another fresh one with that title.  The path of the
\* extracted text follows from the id the row gets (RankRows)
ArticleKinds ==
    <<[source_id |-> 1, canonical_url |-> "u1", title |-> "GPT launch",
       published_at |-> NowHours, outlet |-> "a.example", content_hash |-> "h1",
       extracted_path |-> "",
       first_seen_at |-> NowHours, last_seen_at |-> NowHours],
      [source_id |-> 2, canonical_url |-> "u2", title |-> SuppressedTitle,
       published_at |-> NowHours, outlet |-> "b.example", content_hash |-> "h2",
       extracted_path |-> "",
       first_seen_at |-> NowHours - 1, last_seen_at |-> NowHours - 1],
      [source_id |-> 3, canonical_url |-> "u3", title |-> SuppressedTitle,
       published_at |-> NowHours - 600, outlet |-> "c.example", content_hash |-> "h3",
       extracted_path |-> "",
       first_seen_at |-> NowHours - 2, last_seen_at |-> NowHours - 2],
      [source_id |-> 2, canonical_url |-> "u4", title |-> SuppressedTitle,
       published_at |-> NowHours, outlet |-> "b.example", content_hash |-> "h4",
       extracted_path |-> "",
       first_seen_at |-> NowHours - 3, last_seen_at |-> NowHours - 3]>>

\* the elements of a set of numbers in increasing order
SortedSeq(S) ==
    CHOOSE q \in [1..Cardinality(S) -> S] : \A i, j \in DOMAIN q : i < j => q[i] < q[j]

\* the text extracted from the first kind of article
RankText == "More on gpt and GPT."

\* the rows of the kinds S as upsert_article left them: ids in order of
\* insertion, extracted_path the path of the article's text file
RankRows(S) ==
    [i \in 1..Cardinality(S) |->
        [ArticleKinds[SortedSeq(S)[i]] EXCEPT
            !.extracted_path = ArticlePath("2024-01-01", i)]]

\* the extracted texts on disk: the text of the first kind where it is part
\* of the population (then it is article 1); the other text files were
\* removed since
RankFiles(S) ==
    IF 1 \in S THEN [p \in {ArticlePath("2024-01-01", 1)} |-> RankText] ELSE <<>>

\* the story budgets: --max-stories is handed to rank_articles as given on
\* the command line, negative numbers included
StoryBudgets == -1..MaxStories

\* the kinds of the article tables of up to MaxArticles rows
Populations == {T \in SUBSET (DOMAIN ArticleKinds) : Cardinality(T) <= MaxArticles}

InitRank ==
    /\ runs = InsertRun(<<>>, "2024-01-01", 0)
    /\ sources = RankSources
    /\ \E S \in Populations : /\ articles = RankRows(S)
                              /\ files = RankFiles(S)
    /\ run_articles = [k \in {1} \X DOMAIN articles |->
                          [included_in_rank |-> LinkedFlag, score_json |-> <<>>]]
    /\ clock = NowHours
    /\ pc = "idle"
    /\ cur = 0
    /\ stages = [i \in 1..NumStages |-> NewStage]
    /\ run_id = 1
    /\ result = "none"
    /\ ret = FALSE
    /\ params = [run_date |-> "2024-01-01", max_items |-> 1, max_stories |-> 1]
    /\ ctx = EmptyCtx
    /\ invocations = 0
    /\ \E ms \in StoryBudgets, m \in MinScores :
          rk = [NoRank EXCEPT !.ranker = ArticleRanker(DefaultRankingConfig, RankPreferences),
                              !.max_stories = ms, !.min_score = m]
    /\ sc = NoScore
    /\ report = NoReport
    /\ sessions = NoSessions
    /\ fetch = NoFetch

\* ranker.rank_articles(conn, run_id, max_stories, min_score): it returns
\* after its commit, or it raises
RankCall ==
    /\ ~rk.called /\ rk.raised = NoneStr
    /\ \E binding \in ParameterBindings :
       \E r \in RankArticles(rk.ranker, Database, run_id, rk.max_stories,
                             rk.min_score, clock, binding) :
          /\ run_articles' = r.run_articles
          /\ rk' = RankLocals(rk.ranker, rk.max_stories, rk.min_score, r)
    /\ UNCHANGED <<runs, articles, clock, orchVars, sc, report, concVars, storeVars>>

NextRank == RankCall

SpecRank == InitRank /\ [][NextRank]_vars

----------------------------------------------------------------------------
(* Configuration load and score_article on their own: a RankingConfig is     *)
(* built from the weights a configuration file supplies, and the ranker then *)
(* scores one article of the run against the window of recent articles.      *)

Title1 == "OpenAI releases new model"
Title2 == "OpenAI Releases New Model Today"
Title3 == "Chip makers report earnings"
Title4 == "Ads, ads and more ADS"

\* the ages, in hours, at which the earlier article was first seen
FirstSeenAges == {12, 36, 100}

\* the article table before the run: one article seen earlier
Histories ==
    {<<[source_id |-> 1, canonical_url |-> "u1", title |-> Title2,
        published_at |-> None, outlet |-> "", content_hash |-> "h1",
        extracted_path |-> ArticlePath("2024-01-01", 1),
        first_seen_at |-> NowHours - age,
        last_seen_at |-> NowHours - age]>> : age \in FirstSeenAges}

\* the article rows of the run handed to score_article: the second row of the
\* articles table, extracted_path as the INSERT of upsert_article left it
\* ("") or as its UPDATE did
ScoreInputs ==
    [id : {2}, source_id : {1}, canonical_url : {"u2"}, content_hash : {"h2"},
     title : {Title1, Title4},
     published_at : {None, NowHours, NowHours - 100},
     outlet : {NoneStr, "", "blog.TechCrunch.com"},
     extracted_path : {"", ArticlePath("2024-01-01", 2)},
     source_weight : {DblOne},
     source_name : {"feed"}]

\* the extracted texts on disk: the text of the second article
ScoreFiles ==
    [p \in {ArticlePath("2024-01-01", 2)} |-> "GPT, gpt: gpt-4 and gpt. No ads"]

\* the states of the disk: the text file of the article removed, or in place
ScoreDisks == {<<>>, ScoreFiles}

\* the preferences dicts a ranker is built with
PreferenceSets ==
    {[boost_keywords |-> {}, suppress_keywords |-> {},
      preferred_outlets |-> {}, preferred_categories |-> {}],
     [boost_keywords |-> {"GPT"}, suppress_keywords |-> {"ads"},
      preferred_outlets |-> {"techcrunch.com"}, preferred_categories |-> {"research"}]}

InitScore ==
    /\ runs = InsertRun(<<>>, "2024-01-01", 0)
    /\ sources = <<[name |-> "feed", category |-> "research", weight |-> One,
                    enabled |-> TRUE]>>
    /\ articles \in Histories
    /\ run_articles = <<>>
    /\ files \in ScoreDisks
    /\ clock = NowHours
    /\ pc = "idle"
    /\ cur = 0
    /\ stages = [i \in 1..NumStages |-> NewStage]
    /\ run_id = 1
    /\ result = "none"
    /\ ret = FALSE
    /\ params = [run_date |-> "2024-01-01", max_items |-> 1, max_stories |-> 1]
    /\ ctx = EmptyCtx
    /\ invocations = 0
    /\ rk = NoRank
    /\ sc = NoScore
    /\ report = NoReport
    /\ sessions = NoSessions
    /\ fetch = NoFetch

\* load_config: ConfigModel(**config_data) builds the RankingConfig
LoadConfig ==
    /\ sc.phase = "none"
    /\ \E raw \in RawConfigs :
          sc' = [phase |-> "loaded", raw |-> raw,
                 accepted |-> LoadRankingConfig(raw).accepted,
                 config |-> LoadRankingConfig(raw).config]
    /\ UNCHANGED <<dbVars, clock, orchVars, rk, report, concVars, storeVars>>

\* the row the storage stage inserted for the article being scored
StoredRow(a, now) ==
    [source_id |-> a.source_id, canonical_url |-> a.canonical_url,
     title |-> a.title, published_at |-> a.published_at, outlet |-> a.outlet,
     content_hash |-> a.content_hash, extracted_path |-> a.extracted_path,
     first_seen_at |-> now, last_seen_at |-> now]

\* rank_articles up to the score of the one article of the run: the window
\* is loaded, which raises when the parameters are bound in the server; the
\* category map is built from the rows; score_article is called on the row
ScoreCall ==
    /\ sc.phase = "loaded"
    /\ sc.accepted
    /\ \E a \in ScoreInputs, prefs \in PreferenceSets, binding \in ParameterBindings :
          \E recent \in GetRecentArticles(Append(articles, StoredRow(a, clock)), clock,
                                          RecentLimit, novelty_window_runs * 7,
                                          binding) :
              sc' = IF recent.raised # NoneStr
                    THEN [phase |-> "rejected", raw |-> sc.raw, accepted |-> TRUE,
                          config |-> sc.config, article |-> a, preferences |-> prefs,
                          raised |-> recent.raised]
                    ELSE [phase |-> "scored", raw |-> sc.raw, accepted |-> TRUE,
                          config |-> sc.config, article |-> a,
                          source_category |-> SourceCategoryMap(<<a>>)[a.source_name],
                          preferences |-> prefs,
                          recent |-> recent.rows,
                          outcome |-> ScoreArticleOutcome(
                                          ArticleRanker(sc.config, prefs), files, a,
                                          recent.rows,
                                          SourceCategoryMap(<<a>>)[a.source_name],
                                          clock)]
    /\ UNCHANGED <<dbVars, clock, orchVars, rk, report, concVars, storeVars>>

NextScore == LoadConfig \/ ScoreCall

SpecScore == InitScore /\ [][NextScore]_vars

----------------------------------------------------------------------------
(* The run command on its own: cli/run.py loads the main configuration,     *)
(* checks the database connection and runs the pipeline once; stage 1 of    *)
(* the pipeline loads the sources file.                                     *)

\* the runs table before the command: empty, or holding the record of an
\* earlier successful run of a date
RunTables ==
    {<<>>} \cup
    {UpdateRunTable(InsertRun(<<>>, d, 0), 1, "success", <<>>, 0) : d \in Dates}

InitCli ==
    /\ runs \in RunTables
    /\ articles = <<>>
    /\ run_articles = <<>>
    /\ sources = <<>>
    /\ files = <<>>
    /\ clock = 0
    /\ pc = "idle"
    /\ cur = 0
    /\ stages = [i \in 1..NumStages |-> NewStage]
    /\ run_id = None
    /\ result = "none"
    /\ ret = FALSE
    /\ params = [run_date |-> "2024-01-01", max_items |-> 1, max_stories |-> 1]
    /\ ctx = EmptyCtx
    /\ invocations = 0
    /\ rk = NoRank
    /\ sc \in [phase : {"cli"}, main_config : MainConfigFiles,
               sources_file : SourcesFiles, runs0 : {runs}]
    /\ report = NoReport
    /\ sessions = NoSessions
    /\ fetch = NoFetch

\* run_command: the configuration does not load, or validate_connection
\* returns False: typer.Exit(1) before an orchestrator is built
RunCommandExits ==
    /\ pc = "idle"
    /\ \E db_ok \in BOOLEAN : load_config(sc.main_config).raised # "" \/ ~db_ok
    /\ result' = "exit"
    /\ pc' = "done"
    /\ UNCHANGED <<dbVars, clock, cur, stages, run_id, ret, params, ctx,
                   invocations, rk, sc, report, concVars, storeVars>>

\* run_command: the configuration loads, the database answers, and
\* PipelineOrchestrator(config).run(...) is called
RunCommandRuns ==
    /\ pc = "idle"
    /\ load_config(sc.main_config).raised = ""
    /\ NewInvocation

\* Stage 1 on the sources file: load_sources, the enabled sources, sync_sources
LoadSourcesStage ==
    /\ pc = "body" /\ cur = 1
    /\ LET loaded == load_sources(sc.sources_file)
       IN  IF loaded.raised # ""
           THEN /\ FailStage(1, loaded.raised)
                /\ ctx' = [ctx EXCEPT !.raised = loaded.raised]
                /\ sources' = sources
           ELSE SyncLoadedSources(loaded.sources)
    /\ UNCHANGED <<dbVars, files, clock, run_id, result, params, invocations, rk, sc,
                   report, concVars>>

NextCli ==
    \/ RunCommandExits
    \/ RunCommandRuns
    \/ RunEnter
    \/ RunEnterRaises
    \/ CreateRun
    \/ CreateRunRaises
    \/ StartStage
    \/ StageRaises
    \/ LoadSourcesStage
    \/ RssStageNoSources
    \/ RssStage
    \/ ArticlesStage
    \/ StorageStage
    \/ RankingStage
    \/ ShowNotesStage
    \/ ScriptStage
    \/ UpdateRun
    \/ UpdateRunRaises
    \/ Finally
    \/ FinallyRaises

SpecCli == InitCli /\ [][NextCli]_vars

----------------------------------------------------------------------------
(* create_run called from overlapping pipeline invocations: every caller    *)
(* has its own database connection, and its SELECT, its INSERT or UPDATE    *)
(* and its commit are separate steps.  All callers read the same clock      *)
(* value for started_at.                                                    *)

MaxSessions == 2

\* the runs table with a uniqueness constraint on run_date
RunDateUnique_Constraint == TRUE

\* the runs table declares UNIQUE(run_date): it does not (db/init.py)
RunDateUnique == FALSE

SessionIds == 1..MaxSessions

\* a caller that has not entered create_run
IdleSession ==
    [pc |-> "idle", run_date |-> "", existing |-> None, run_id |-> None,
     inserted |-> FALSE, wrote_before |-> {}]

\* the callers whose statement has written a row
Wrote(ss) == {q \in DOMAIN ss : ss[q].pc \in {"written", "committed"}}

\* the rows a caller's SELECT sees under READ COMMITTED: all but the rows
\* other callers inserted and have not committed
VisibleRuns(rs, ss, p) ==
    {i \in DOMAIN rs :
        \A q \in DOMAIN ss \ {p} :
            ~(ss[q].pc = "written" /\ ss[q].inserted /\ ss[q].run_id = i)}

\* "SELECT id FROM runs WHERE run_date = %s ORDER BY started_at DESC LIMIT 1"
\* over the visible rows
VisibleExistingRunIds(rs, ids, run_date) ==
    LET found == {i \in ids : rs[i].run_date = run_date}
    IN  IF found = {} THEN {None}
        ELSE {i \in found : \A j \in found : rs[j].started_at <= rs[i].started_at}

\* the row locks held: rows updated or inserted by a caller yet to commit
LockedRuns(ss, p) ==
    {ss[q].run_id : q \in {r \in DOMAIN ss \ {p} : ss[r].pc = "written"}}

InitRace ==
    /\ runs \in RunTables
    /\ articles = <<>>
    /\ run_articles = <<>>
    /\ sources = <<>>
    /\ files = <<>>
    /\ clock = 1
    /\ pc = "idle"
    /\ cur = 0
    /\ stages = [i \in 1..NumStages |-> NewStage]
    /\ run_id = None
    /\ result = "none"
    /\ ret = FALSE
    /\ params = [run_date |-> "2024-01-01", max_items |-> 1, max_stories |-> 1]
    /\ ctx = EmptyCtx
    /\ invocations = 0
    /\ rk = NoRank
    /\ sc = NoScore
    /\ report = NoReport
    /\ sessions = [p \in SessionIds |-> IdleSession]
    /\ fetch = NoFetch

\* create_run, lines 32-36: the existence check
CreateRunSelect ==
    \E p \in SessionIds :
        /\ sessions[p].pc = "idle"
        /\ \E d \in Dates :
           \E existing \in VisibleExistingRunIds(runs, VisibleRuns(runs, sessions, p), d) :
              sessions' = [sessions EXCEPT ![p] =
                              [pc |-> "selected", run_date |-> d, existing |-> existing,
                               run_id |-> None, inserted |-> FALSE,
                               wrote_before |-> Wrote(sessions)]]
        /\ UNCHANGED <<dbVars, clock, orchVars, rk, sc, report, fetch, storeVars>>

\* create_run, lines 38-64: the UPDATE of the row found, or the INSERT.  An
\* UPDATE waits for the lock of a caller that has yet to commit; under a
\* uniqueness constraint an INSERT waits likewise and fails on a duplicate.
CreateRunWrite ==
    \E p \in SessionIds :
        /\ sessions[p].pc = "selected"
        /\ LET s == sessions[p]
               taken == RunsOfDate(runs, s.run_date)
           IN  IF s.existing # None
               THEN /\ s.existing \notin LockedRuns(sessions, p)
                    /\ runs' = ResetRun(runs, s.existing, clock)
                    /\ sessions' = [sessions EXCEPT ![p].pc = "written",
                                                    ![p].run_id = s.existing]
               ELSE IF RunDateUnique /\ taken # {}
               THEN /\ taken \cap LockedRuns(sessions, p) = {}
                    /\ runs' = runs
                    /\ sessions' = [sessions EXCEPT ![p].pc = "raised"]
               ELSE /\ runs' = InsertRun(runs, s.run_date, clock)
                    /\ sessions' = [sessions EXCEPT ![p].pc = "written",
                                                    ![p].run_id = Len(runs) + 1,
                                                    ![p].inserted = TRUE]
        /\ UNCHANGED <<articles, run_articles, clock, orchVars, rk, sc, report, fetch, storeVars>>

\* create_run, line 66: conn.commit()
CreateRunCommit ==
    \E p \in SessionIds :
        /\ sessions[p].pc = "written"
        /\ sessions' = [sessions EXCEPT ![p].pc = "committed"]
        /\ UNCHANGED <<dbVars, clock, orchVars, rk, sc, report, fetch, storeVars>>

NextRace ==
    \/ CreateRunSelect
    \/ CreateRunWrite
    \/ CreateRunCommit

SpecRace == InitRace /\ [][NextRace]_vars

----------------------------------------------------------------------------
(* The novelty and topic scorers on their own: NoveltyScorer.score on a     *)
(* candidate and a window of recent rows, TopicScorer.score on a title, a   *)
(* body and the configured keywords.                                        *)

MaxWindow == 3
MaxMatches == 6

\* NoveltyScorer.score: 1.0 without a context or without a window in it
NoveltyScore(article, context, now) ==
    IF ~context.supplied THEN DblOne
    ELSE NoveltyScorer(article, context.recent_articles, now)

\* the candidates scored: with and without a content hash
NoveltyCandidates ==
    [id : {2}, canonical_url : {"u2"}, content_hash : {"", "h2"}, title : {Title1}]

\* the rows a window can hold: one with the candidate's URL, one with the
\* hash "h2", one with a similar title, the candidate's own row, and one
\* that shares nothing with the candidate
NoveltyRowKinds ==
    {[id |-> 1, canonical_url |-> "u2", content_hash |-> "h1", title |-> Title3],
     [id |-> 3, canonical_url |-> "u3", content_hash |-> "h2", title |-> Title3],
     [id |-> 4, canonical_url |-> "u4", content_hash |-> "h4", title |-> Title2],
     [id |-> 2, canonical_url |-> "u2", content_hash |-> "h2", title |-> Title1],
     [id |-> 5, canonical_url |-> "u5", content_hash |-> "", title |-> Title3]}

\* the ages, in hours, of a window row: under one day, between one and two
\* days, between two and three, over three
NoveltyAges == {12, 36, 60, 100}

\* a window row with its first_seen_at, and the row with the candidate's URL
\* without one
NoveltyRows ==
    {[id |-> r.id, canonical_url |-> r.canonical_url, content_hash |-> r.content_hash,
      title |-> r.title, first_seen_at |-> NowHours - age] :
        r \in NoveltyRowKinds, age \in NoveltyAges}
    \cup {[id |-> 1, canonical_url |-> "u2", content_hash |-> "h1", title |-> Title3]}

\* the contexts handed to NoveltyScorer.score: none, or a window
NoveltyContexts ==
    {[supplied |-> FALSE, recent_articles |-> <<>>]}
    \cup {[supplied |-> TRUE, recent_articles |-> w] :
            w \in UNION {[1..k -> NoveltyRows] : k \in 0..MaxWindow}}

\* a text of g times "gpt" followed by a times "ads", separated by blanks
RECURSIVE Words(_, _)
Words(g, a) ==
    IF g > 0 THEN "gpt" \o (IF g + a > 1 THEN " " ELSE "") \o Words(g - 1, a)
    ELSE IF a > 0 THEN "ads" \o (IF a > 1 THEN " " ELSE "") \o Words(g, a - 1)
    ELSE ""

\* the titles and bodies scored
TopicTexts == {Words(g, a) : g \in 0..MaxMatches, a \in 0..MaxMatches}

\* the keyword lists of the preferences
BoostKeywordSets == {{}, {"GPT"}}
SuppressKeywordSets == {{}, {"ads"}}

\* TopicScorer(boost_keywords, suppress_keywords).score on a title and a body
TopicScore(title, content, boost_keywords, suppress_keywords) ==
    TopicScorer([boost_keywords |-> LowerAll(boost_keywords),
                 suppress_keywords |-> LowerAll(suppress_keywords)],
                [title |-> title], content)

InitSignals ==
    /\ runs = <<>>
    /\ articles = <<>>
    /\ run_articles = <<>>
    /\ sources = <<>>
    /\ files = <<>>
    /\ clock = NowHours
    /\ pc = "idle"
    /\ cur = 0
    /\ stages = [i \in 1..NumStages |-> NewStage]
    /\ run_id = None
    /\ result = "none"
    /\ ret = FALSE
    /\ params = [run_date |-> "2024-01-01", max_items |-> 1, max_stories |-> 1]
    /\ ctx = EmptyCtx
    /\ invocations = 0
    /\ rk = NoRank
    /\ sc \in [phase : {"novelty_input"}, article : NoveltyCandidates,
               context : NoveltyContexts]
              \cup [phase : {"topic_input"}, title : TopicTexts, content : TopicTexts,
                    boost_keywords : BoostKeywordSets,
                    suppress_keywords : SuppressKeywordSets]
    /\ report = NoReport
    /\ sessions = NoSessions
    /\ fetch = NoFetch

\* self.novelty_scorer.score(article, context)
NoveltyCall ==
    /\ sc.phase = "novelty_input"
    /\ sc' = [phase |-> "novelty_scored", article |-> sc.article, context |-> sc.context,
              score |-> NoveltyScore(sc.article, sc.context, clock)]
    /\ UNCHANGED <<dbVars, clock, orchVars, rk, report, concVars, storeVars>>

\* self.topic_scorer.score(article, context)
TopicCall ==
    /\ sc.phase = "topic_input"
    /\ sc' = [phase |-> "topic_scored", title |-> sc.title, content |-> sc.content,
              boost_keywords |-> sc.boost_keywords,
              suppress_keywords |-> sc.suppress_keywords,
              score |-> TopicScore(sc.title, sc.content, sc.boost_keywords,
                                   sc.suppress_keywords)]
    /\ UNCHANGED <<dbVars, clock, orchVars, rk, report, concVars, storeVars>>

NextSignals == NoveltyCall \/ TopicCall

SpecSignals == InitSignals /\ [][NextSignals]_vars

----------------------------------------------------------------------------
(* fetch_all_feeds and fetch_all_articles on their own: asyncio.gather over *)
(* one task per input, each task inside `async with semaphore`.  The event  *)
(* loop keeps running the tasks, and every request ends (httpx timeout), so *)
(* the steps are weakly fair.                                               *)

MaxFetches == 6

\* RSSFetcher(max_concurrent=5), ArticleFetcher(max_concurrent=3)
FeedConcurrency == 5
ArticleConcurrency == 3

max_concurrent(kind) == IF kind = "feeds" THEN FeedConcurrency ELSE ArticleConcurrency

\* the link of a feed item: well-formed, or one urlparse rejects ("http://[::1")
Links == {"ok", "malformed"}

\* the inputs of a gather: the enabled sources, or the feed items by link
FetchInputs(kind) ==
    IF kind = "feeds"
    THEN UNION {[1..n -> {"ok"}] : n \in 0..MaxFetches}
    ELSE UNION {[1..n -> Links] : n \in 0..MaxFetches}

\* the tasks that hold the semaphore
InFlight(f) == {i \in DOMAIN f.task : f.task[i] = "in_flight"}

\* the tasks that have not ended
Unfinished(f) == {i \in DOMAIN f.task : f.task[i] \in {"waiting", "in_flight"}}

InitFetch ==
    /\ runs = <<>>
    /\ articles = <<>>
    /\ run_articles = <<>>
    /\ sources = <<>>
    /\ files = <<>>
    /\ clock = 0
    /\ pc = "idle"
    /\ cur = 0
    /\ stages = [i \in 1..NumStages |-> NewStage]
    /\ run_id = None
    /\ result = "none"
    /\ ret = FALSE
    /\ params = [run_date |-> "2024-01-01", max_items |-> 1, max_stories |-> 1]
    /\ ctx = EmptyCtx
    /\ invocations = 0
    /\ rk = NoRank
    /\ sc = NoScore
    /\ report = NoReport
    /\ sessions = NoSessions
    /\ \E kind \in {"feeds", "articles"} :
       \E inputs \in FetchInputs(kind) :
          fetch = [kind |-> kind, inputs |-> inputs,
                   task |-> [i \in DOMAIN inputs |-> "waiting"],
                   outcome |-> "pending", results |-> <<>>]

\* `async with semaphore`: the semaphore is taken, in the order of the
\* inputs, while fewer than max_concurrent tasks hold it
SemaphoreAcquire ==
    \E i \in DOMAIN fetch.task :
        /\ fetch.outcome \in {"pending", "raising"}
        /\ fetch.task[i] = "waiting"
        /\ \A j \in 1..(i - 1) : fetch.task[j] # "waiting"
        /\ Cardinality(InFlight(fetch)) < max_concurrent(fetch.kind)
        /\ fetch' = [fetch EXCEPT !.task[i] = "in_flight"]
        /\ UNCHANGED <<dbVars, clock, orchVars, rk, sc, report, sessions, storeVars>>

\* fetch_feed / fetch_article returns a result: the content, or the failure
\* caught by one of its except blocks (success False); the semaphore is
\* released.  No response comes for a malformed link.
FetchReturns ==
    \E i \in DOMAIN fetch.task :
        /\ fetch.outcome \in {"pending", "raising"}
        /\ fetch.task[i] = "in_flight"
        /\ fetch.inputs[i] = "ok"
        /\ \E success \in BOOLEAN :
              fetch' = [fetch EXCEPT !.task[i] = IF success THEN "ok" ELSE "failed"]
        /\ UNCHANGED <<dbVars, clock, orchVars, rk, sc, report, sessions, storeVars>>

\* fetch_article on a malformed link: client.get raises, and the except block
\* that builds the failure result calls _extract_outlet(item.link), where
\* urlparse raises ValueError: the exception leaves the task and gather
\* passes it on to fetch_all_articles
FetchRaises ==
    \E i \in DOMAIN fetch.task :
        /\ fetch.outcome \in {"pending", "raising"}
        /\ fetch.task[i] = "in_flight"
        /\ fetch.kind = "articles"
        /\ fetch.inputs[i] = "malformed"
        /\ fetch' = [fetch EXCEPT !.task[i] = "raised", !.outcome = "raising"]
        /\ UNCHANGED <<dbVars, clock, orchVars, rk, sc, report, sessions, storeVars>>

\* fetch_all_articles raises out of asyncio.run, which cancels the tasks
\* that have not ended
GatherRaises ==
    /\ fetch.outcome = "raising"
    /\ fetch' = [fetch EXCEPT
                    !.task = [i \in DOMAIN fetch.task |->
                                 IF i \in Unfinished(fetch) THEN "cancelled"
                                 ELSE fetch.task[i]],
                    !.outcome = "raised"]
    /\ UNCHANGED <<dbVars, clock, orchVars, rk, sc, report, sessions, storeVars>>

\* `results = await asyncio.gather(*tasks)`: one result per input, in the
\* order of the inputs (at once, and empty, without inputs)
GatherReturns ==
    /\ fetch.outcome = "pending"
    /\ \A i \in DOMAIN fetch.task : fetch.task[i] \in {"ok", "failed"}
    /\ fetch' = [fetch EXCEPT
                    !.outcome = "returned",
                    !.results = [i \in DOMAIN fetch.task |->
                                    [input |-> i, success |-> fetch.task[i] = "ok"]]]
    /\ UNCHANGED <<dbVars, clock, orchVars, rk, sc, report, sessions, storeVars>>

NextFetch ==
    \/ SemaphoreAcquire
    \/ FetchReturns
    \/ FetchRaises
    \/ GatherRaises
    \/ GatherReturns

SpecFetch == InitFetch /\ [][NextFetch]_vars /\ WF_vars(NextFetch)

----------------------------------------------------------------------------
(* process_articles on its own: calls with batches of fetched articles that *)
(* repeat the canonical URLs and content hashes of each other and of the    *)
(* stored articles in every combination.                                    *)

\* the lengths of a batch
BatchLens == {0, 1, 2}

\* the source the store knows
StoreSources ==
    <<[name |-> "Example Feed", category |-> "news", weight |-> 800, enabled |-> TRUE]>>

\* the source_map handed to process_articles: what sync_sources returns for
\* the sources of the store
StoreSourceMap == SyncSources(<<>>, <<>>, StoreSources).source_map

\* the ArticleContent records handed to process_articles: fetched or failed,
\* from the source of the source_map, from a source found by the outlet, or
\* from a source found by neither
Incoming ==
    [canonical_url : {"u1", "u2"}, content_hash : {"h1", "h2"},
     title : {"Plain title"}, text : {"Body"}, published_at : {None},
     outlet : {"a.example"}, source_name : {"Example Feed"},
     fetch_success : {TRUE}]
    \cup [canonical_url : {"u1"}, content_hash : {""},
          title : {""}, text : {""}, published_at : {None},
          outlet : {"a.example"}, source_name : {"Example Feed"},
          fetch_success : {FALSE}]
    \cup [canonical_url : {"u1"}, content_hash : {"h1"},
          title : {"Plain title"}, text : {"Body"}, published_at : {None},
          outlet : {"a.example", "Example"}, source_name : {"Other Feed"},
          fetch_success : {TRUE}]

Batches == UNION {[1..k -> Incoming] : k \in BatchLens}

InitStore ==
    /\ runs = InsertRun(InsertRun(<<>>, "2024-01-01", 0), "2024-01-02", 0)
    /\ articles = <<>>
    /\ run_articles = <<>>
    /\ sources = SyncSources(<<>>, <<>>, StoreSources).sources
    /\ files = <<>>
    /\ clock = 0
    /\ pc = "idle"
    /\ cur = 0
    /\ stages = [i \in 1..NumStages |-> NewStage]
    /\ run_id = None
    /\ result = "none"
    /\ ret = FALSE
    /\ params = [run_date |-> "2024-01-01", max_items |-> 1, max_stories |-> 1]
    /\ ctx = EmptyCtx
    /\ invocations = 0
    /\ rk = NoRank
    /\ sc = NoScore
    /\ report = NoReport
    /\ sessions = NoSessions
    /\ fetch = NoFetch

\* storage.process_articles(conn, articles, source_map, run_id, run_date)
\* returning after its commit
ProcessCall ==
    /\ invocations < MaxInvocations
    /\ invocations' = invocations + 1
    /\ clock' = clock + 1
    /\ \E rid \in DOMAIN runs, batch \in Batches :
       \E out \in ProcessArticles(
                    [articles |-> articles, run_articles |-> run_articles,
                     files |-> files, stats |-> NewStats(batch)],
                    batch, StoreSourceMap, rid, runs[rid].run_date, clock') :
          /\ articles' = out.articles
          /\ run_articles' = out.run_articles
          /\ files' = out.files
          /\ sc' = [phase |-> "stored", run_id |-> rid, batch |-> batch,
                    stats |-> out.stats]
    /\ UNCHANGED <<runs, sources, pc, cur, stages, run_id, result, ret, params, ctx,
                   rk, report, concVars>>

\* storage.process_articles raising at its k-th article (a statement or the
\* write of the text file fails), before its commit.  The files written
\* stay; the rows written are committed when the caller commits on the
\* connection afterwards, as _execute_pipeline does with update_run_status,
\* and are rolled back when the exception leaves `with get_connection`,
\* which leaves their ids drawn.
ProcessCallRaises ==
    /\ invocations < MaxInvocations
    /\ invocations' = invocations + 1
    /\ clock' = clock + 1
    /\ \E rid \in DOMAIN runs, batch \in Batches, committed \in BOOLEAN :
       \E k \in DOMAIN batch :
       \E w \in ProcessArticlesRaising(
                    [articles |-> articles, run_articles |-> run_articles,
                     files |-> files, stats |-> NewStats(batch)],
                    batch, StoreSourceMap, rid, runs[rid].run_date, clock', k) :
          /\ articles' = IF committed THEN w.articles
                         ELSE RolledBack(articles, w.articles, ConsumedArticleId)
          /\ run_articles' = IF committed THEN w.run_articles ELSE run_articles
          /\ files' = w.files
          /\ sc' = [phase |-> "raised", run_id |-> rid, batch |-> batch,
                    stats |-> NewStats(batch)]
    /\ UNCHANGED <<runs, sources, pc, cur, stages, run_id, result, ret, params, ctx,
                   rk, report, concVars>>

NextStore == ProcessCall \/ ProcessCallRaises

SpecStore == InitStore /\ [][NextStore]_vars

----------------------------------------------------------------------------
(* The RunManager on its own, called as run calls it: create_run with the   *)
(* default started_at and then, for the record it returned, update_run_status*)
(* with 'success' or 'failed', the final statistics and the default         *)
(* finished_at; the update may raise.                                       *)

\* the number of create_run calls
MaxRuns == 4

InitRuns ==
    /\ runs = <<>>
    /\ articles = <<>>
    /\ run_articles = <<>>
    /\ sources = <<>>
    /\ files = <<>>
    /\ clock = 0
    /\ pc = "idle"
    /\ cur = 0
    /\ stages = [i \in 1..NumStages |-> NewStage]
    /\ run_id = None
    /\ result = "none"
    /\ ret = FALSE
    /\ params = [run_date |-> "2024-01-01", max_items |-> 1, max_stories |-> 1]
    /\ ctx = EmptyCtx
    /\ invocations = 0
    /\ rk = NoRank
    /\ sc = NoScore
    /\ report = NoReport
    /\ sessions = NoSessions
    /\ fetch = NoFetch

\* RunManager.create_run(conn, run_date), the id returned kept in run_id
CreateRunCall ==
    /\ pc = "idle"
    /\ invocations < MaxRuns
    /\ invocations' = invocations + 1
    /\ clock' = clock + 1
    /\ \E d \in Dates :
          /\ params' = [params EXCEPT !.run_date = d]
          /\ \E existing \in ExistingRunIds(runs, d) :
                /\ runs' = CreateRunTable(runs, existing, d, clock')
                /\ run_id' = CreateRunId(runs, existing)
    /\ pc' = "update"
    /\ UNCHANGED <<articles, run_articles, cur, stages, result, ret, ctx,
                   rk, sc, report, concVars, storeVars>>

\* the list self.stages a pipeline leaves: the first k stages succeeded, the
\* next one, if any, failed, and the rest did not start
StagesAfter(k, now) ==
    [i \in 1..NumStages |->
        IF i <= k THEN StageComplete(StageStart(NewStage, now), now)
        ELSE IF i = k + 1 THEN StageFail(StageStart(NewStage, now), now, "boom")
        ELSE NewStage]

\* the (status, stats_json) arguments run hands to update_run_status: one
\* pair per number of stages that succeeded
StatusArguments(now) ==
    {[status |-> FinalStatus(AllSucceeded(StagesAfter(k, now))),
      stats_json |-> <<FinalStats(params, StagesAfter(k, now))>>] : k \in 0..NumStages}

\* RunManager.update_run_status(conn, run_id, status, stats_json) returning
\* after its commit
UpdateRunStatusCall ==
    /\ pc = "update"
    /\ clock' = clock + 1
    /\ \E args \in StatusArguments(clock * SecondsPerHour) :
          runs' = UpdateRunTable(runs, run_id, args.status, args.stats_json, clock')
    /\ pc' = "idle"
    /\ UNCHANGED <<articles, run_articles, cur, stages, run_id, result, ret, params,
                   ctx, invocations, rk, sc, report, concVars, storeVars>>

\* RunManager.update_run_status raising in its UPDATE, before the commit: the
\* record stays as create_run left it
RunEndsWithoutUpdate ==
    /\ pc = "update"
    /\ pc' = "idle"
    /\ UNCHANGED <<dbVars, clock, cur, stages, run_id, result, ret, params,
                   ctx, invocations, rk, sc, report, concVars, storeVars>>

NextRuns ==
    \/ CreateRunCall
    \/ UpdateRunStatusCall
    \/ RunEndsWithoutUpdate

SpecRuns == InitRuns /\ [][NextRuns]_vars

----------------------------------------------------------------------------
(* The rss stage on its own: every --max-items value and every number of    *)
(* enabled sources, each feed failed or carrying its own items, so that the *)
(* feed an item came from can be read off the collected list.               *)

\* the largest --max-items value tried
MaxItems == 4

\* the lengths of a feed
RssFeedLens == 0..(MaxItems - 1)

\* the FeedResult of source i: failed, or the items <<i, 1>>, <<i, 2>>, ...
RssFeedResults(i) ==
    {[success |-> FALSE, items |-> <<>>]}
    \cup {[success |-> TRUE, items |-> [j \in 1..k |-> <<i, j>>]] : k \in RssFeedLens}

\* the state in which stage 2 is about to start: the run record exists and
\* stage 1 has completed with the enabled sources
InitRss ==
    /\ runs = InsertRun(<<>>, "2024-01-01", 0)
    /\ articles = <<>>
    /\ run_articles = <<>>
    /\ sources = <<>>
    /\ files = <<>>
    /\ clock = 1
    /\ pc = "start"
    /\ cur = 2
    /\ stages = [i \in 1..NumStages |->
                    IF i = 1
                    THEN StageComplete(StageStart(NewStage, SecondsPerHour), SecondsPerHour)
                    ELSE NewStage]
    /\ run_id = 1
    /\ result = "none"
    /\ ret = FALSE
    /\ \E m \in 1..MaxItems :
          params = [run_date |-> "2024-01-01", max_items |-> m, max_stories |-> 1]
    /\ \E n \in 0..MaxSources :
          /\ ctx = [EmptyCtx EXCEPT !.enabled = n]
          /\ \E feed_results \in [1..n -> UNION {RssFeedResults(i) : i \in 1..n}] :
                /\ \A i \in 1..n : feed_results[i] \in RssFeedResults(i)
                /\ sc = [phase |-> "rss", feed_results |-> feed_results]
    /\ invocations = 1
    /\ rk = NoRank
    /\ report = NoReport
    /\ sessions = NoSessions
    /\ fetch = NoFetch

\* Stage 2 on the feed results of the enabled sources
RssStageFeeds ==
    /\ pc = "body" /\ cur = 2
    /\ ctx.enabled > 0
    /\ LET all_items == CollectItems(sc.feed_results, params.max_items, ctx.enabled)
       IN  IF all_items = <<>>
           THEN /\ FailStage(2, "No articles found in RSS feeds")
                /\ ctx' = [ctx EXCEPT !.raised = "No articles found in RSS feeds"]
           ELSE /\ CompleteStage(2)
                /\ ctx' = [ctx EXCEPT !.all_items = all_items]
    /\ UNCHANGED <<dbVars, clock, run_id, result, params, invocations, rk, sc, report, concVars, storeVars>>

NextRss ==
    \/ StartStage
    \/ RssStageNoSources
    \/ RssStageFeeds

SpecRss == InitRss /\ [][NextRss]_vars

----------------------------------------------------------------------------
(* The category of a source on its way to the scorers: sync_sources stores  *)
(* the configured category, get_run_articles reads the rows of the run, and *)
(* rank_articles builds the category map handed to score_article.           *)

\* the categories sources.yaml gives a source
ConfiguredCategories == {"research", "implementations", "concepts"}

\* the `preferences:` sections of config.yaml tried
PreferenceSections ==
    {[boost_keywords |-> {}],
     [boost_keywords |-> {}, preferred_categories |-> {"research"}],
     [boost_keywords |-> {}, preferred_categories |-> {"research", "concepts"},
      preferred_outlets |-> {"techcrunch.com"}]}

\* the SourceConfig of the article's feed
CategorySource(a, category) ==
    [name |-> a.source_name, url |-> "https://feed.example/rss", category |-> category,
     weight |-> One, enabled |-> TRUE]

\* the row of the article, the first of the articles table: its text file is
\* named after its id
CategoryRow(a, now) ==
    [StoredRow(a, now) EXCEPT
        !.extracted_path = IF @ = "" THEN "" ELSE ArticlePath("2024-01-01", 1)]

\* the extracted text of the article on disk
CategoryFiles ==
    [p \in {ArticlePath("2024-01-01", 1)} |-> ScoreFiles[ArticlePath("2024-01-01", 2)]]

InitCategory ==
    /\ runs = InsertRun(<<>>, "2024-01-01", 0)
    /\ files = CategoryFiles
    /\ clock = NowHours
    /\ pc = "idle"
    /\ cur = 0
    /\ stages = [i \in 1..NumStages |-> NewStage]
    /\ run_id = 1
    /\ result = "none"
    /\ ret = FALSE
    /\ params = [run_date |-> "2024-01-01", max_items |-> 1, max_stories |-> 1]
    /\ ctx = EmptyCtx
    /\ invocations = 0
    /\ rk = NoRank
    /\ \E a \in {x \in ScoreInputs : ~PreferenceRaises(x)},
          category \in ConfiguredCategories, section \in PreferenceSections :
          /\ sources = SyncSources(<<>>, <<>>, <<CategorySource(a, category)>>).sources
          /\ articles = <<CategoryRow(a, clock)>>
          /\ run_articles = LinkArticleToRun(<<>>, 1, 1)
          /\ sc = [phase |-> "stored", source |-> CategorySource(a, category),
                   section |-> section, article |-> a]
    /\ report = NoReport
    /\ sessions = NoSessions
    /\ fetch = NoFetch

\* the ranker stage 5 builds from the `preferences:` section of config.yaml
CategoryRanker(section) ==
    ArticleRanker(DefaultRankingConfig, PreferencesModelDump(section))

\* what rank_articles handed to the scorers for the one article of the run:
\* the category of the scoring context and the preference score
CategoryScored(self, r) ==
    [source_category |->
        ContextCategory(SourceCategoryMap(r.articles)[r.articles[1].source_name]),
     preference_score |->
        score_article(self, files, r.articles[1], r.recent_articles,
                      SourceCategoryMap(r.articles)[r.articles[1].source_name],
                      clock).preference_score]

\* stage 5: the ranker is built from the preferences of the configuration
\* and rank_articles loads the rows of the run and the window of recent
\* articles, scores the article of the run and writes the selection
RankCategoryCall ==
    /\ sc.phase = "stored"
    /\ \E binding \in ParameterBindings :
       \E r \in RankArticles(CategoryRanker(sc.section), Database, run_id,
                             params.max_stories, DefaultMinScore, clock, binding) :
          /\ run_articles' = r.run_articles
          /\ rk' = RankLocals(CategoryRanker(sc.section), params.max_stories,
                              DefaultMinScore, r)
          /\ sc' = IF r.raised # NoneStr
                    THEN [phase |-> "rank_raised", source |-> sc.source,
                          section |-> sc.section, article |-> sc.article]
                    ELSE [phase |-> "ranked", source |-> sc.source,
                          section |-> sc.section, article |-> sc.article,
                          source_category |->
                              CategoryScored(CategoryRanker(sc.section), r).source_category,
                          preference_score |->
                              CategoryScored(CategoryRanker(sc.section), r).preference_score]
    /\ UNCHANGED <<runs, articles, clock, orchVars, report, concVars, storeVars>>

\* src/fix_db_issue.py, run outside any pipeline run: the first two sources of
\* sources.yaml are upserted with the statement of sync_sources, and the
\* transaction is committed
FixDbIssue ==
    /\ Len(sources) < MaxSources
    /\ sources' = SyncSources(sources, <<>>, PySlice(<<sc.source>>, 2)).sources
    /\ UNCHANGED <<dbVars, files, clock, orchVars, rk, sc, report, concVars>>

NextCategory == RankCategoryCall \/ FixDbIssue

SpecCategory == InitCategory /\ [][NextCategory]_vars

----------------------------------------------------------------------------
(* Stage states *)

Started(k) == stages[k].start_time # None
Running(k) == stages[k].start_time # None /\ stages[k].end_time = None
Succeeded(k) == stages[k].success
Failed(k) == stages[k].end_time # None /\ ~stages[k].success
NotStarted(k) ==
    /\ stages[k].start_time = None
    /\ ~stages[k].success
    /\ stages[k].error = NoneStr

----------------------------------------------------------------------------
(* Claims *)

\* C1: fail-fast.  If stage k ended failed, no later stage was started (start
\* time unset, success false, no error), and once run is over it has returned
\* false and the Run record has status 'failed'.
C1_FailFast ==
    \A k \in 1..NumStages :
        Failed(k) =>
            /\ \A j \in (k + 1)..NumStages : NotStarted(j)
            /\ pc = "done" =>
                  /\ result = "false"
                  /\ run_id # None
                  /\ runs[run_id].status = "failed"

\* C2: stages run strictly in the declared order.  A stage is started only
\* when its predecessor has succeeded, at most one stage is running, and the
\* started stages are a prefix of the declared sequence.
C2_StrictOrder ==
    /\ \A k \in 2..NumStages : Started(k) => Succeeded(k - 1)
    /\ Cardinality({k \in 1..NumStages : Running(k)}) <= 1
    /\ \A k \in 1..NumStages : Started(k) => \A j \in 1..k : Started(j)
    /\ \A k \in 1..NumStages : Running(k) => pc = "body" /\ cur = k

C2_Witness ==
    /\ Running(NumStages)
    /\ \A k \in 1..(NumStages - 1) : Succeeded(k)

\* C3: once run is over, it has returned true, and the Run record is
\* 'success', exactly when all seven stages succeeded; otherwise it has
\* returned false and the record (when there is one) is 'failed'.
C3_SuccessIff ==
    pc = "done" =>
        /\ result = "true" <=> AllSucceeded(stages)
        /\ ~AllSucceeded(stages) => result = "false"
        /\ run_id # None =>
              /\ runs[run_id].status = "success" <=> AllSucceeded(stages)
              /\ ~AllSucceeded(stages) => runs[run_id].status = "failed"

\* C4: no exception escapes run, whichever collaborator fails.
C4_NeverRaises == result # "raised"

\* C5: the Run record is 'running' while the stages execute, and once run has
\* returned after creating the record, the record holds the terminal status
\* that agrees with the returned boolean, together with the aggregate stats.
C5_RunRecordLifecycle ==
    /\ pc \in {"start", "body"} => runs[run_id].status = "running"
    /\ (pc = "done" /\ run_id # None) =>
          /\ runs[run_id].status \in {"success", "failed"}
          /\ runs[run_id].status = "success" <=> result = "true"
          /\ runs[run_id].status = "failed" <=> result = "false"
          /\ runs[run_id].stats_json = <<FinalStats(params, stages)>>

\* C6: serialized create_run calls keep one Run record per requested date:
\* no date ever has two records, each create_run leaves exactly one record
\* for its date and no other date's records changed in number, and a
\* create_run for a date that has a record returns that record's id without
\* inserting a row.
C6_OneRunPerDate ==
    /\ [](\A d \in Dates : Cardinality(RunsOfDate(runs, d)) <= 1)
    /\ [][(pc = "connect" /\ pc' = "start") =>
            /\ Cardinality(RunsOfDate(runs', params.run_date)) = 1
            /\ run_id' \in RunsOfDate(runs', params.run_date)
            /\ \A d \in Dates \ {params.run_date} :
                  RunsOfDate(runs', d) = RunsOfDate(runs, d)
            /\ RunsOfDate(runs, params.run_date) # {} =>
                  /\ run_id' \in RunsOfDate(runs, params.run_date)
                  /\ Len(runs') = Len(runs)]_vars

\* a second execution of a date reused the record the first one had created
\* and linked an article to
C6_Witness ==
    /\ pc = "start"
    /\ invocations = 2
    /\ Len(runs) = 1
    /\ \E k \in DOMAIN run_articles : k[1] = run_id

\* C7: right after create_run the record is 'running' with finished_at and
\* stats empty and started_at the new start time, and nothing of an earlier
\* execution (linked articles, selection flags, scores) is attached to it.
C7_RerunSupersedes ==
    (pc = "start" /\ cur = 1) =>
        /\ runs[run_id].status = "running"
        /\ runs[run_id].finished_at = None
        /\ runs[run_id].stats_json = <<>>
        /\ runs[run_id].started_at = clock
        /\ \A k \in DOMAIN run_articles : k[1] # run_id

\* the total score_article gives a row of the run in the ranking pass
TotalOf(row) ==
    score_article(rk.ranker, files, row, rk.recent_articles,
                  SourceCategoryMap(rk.articles)[row.source_name], clock).total_score

\* a total is at least a min_score given in thousandths
AtLeast(total, min_score) == DblLessEq(Dbl(min_score), total)

\* the position of article id `aid` in the row list
PosIn(rows, aid) == CHOOSE i \in DOMAIN rows : rows[i].id = aid

\* C8: the ranked list has at most max_stories elements, each with a total
\* of at least min_score.
C8_BudgetAndThreshold ==
    rk.called =>
        /\ Len(rk.ranked_articles) <= rk.max_stories
        /\ \A i \in DOMAIN rk.ranked_articles :
              AtLeast(rk.ranked_articles[i].total_score, rk.min_score)

\* the budget cut the list and the threshold dropped an article
C8_Witness ==
    /\ rk.called
    /\ rk.max_stories >= 1
    /\ Len(rk.ranked_articles) = rk.max_stories
    /\ \E i \in DOMAIN rk.articles : ~AtLeast(TotalOf(rk.articles[i]), rk.min_score)
    /\ Cardinality({i \in DOMAIN rk.articles :
                        AtLeast(TotalOf(rk.articles[i]), rk.min_score)}) > rk.max_stories

\* C9: the threshold is applied before the budget.  The ranked list holds
\* min(max_stories, number of articles at or above min_score) distinct
\* articles of the input, all at or above min_score, and an article at or
\* above min_score is left out only when max_stories articles with totals
\* at least as high were kept.  Totals [0.9, 0.4, 0.05] (to the thousandth)
\* in any input order with min_score 0.1 and budget 2 give [0.9, 0.4].
C9_FilterBeforeTruncate ==
    rk.called =>
        LET rows == rk.articles
            R == rk.ranked_articles
            qualifying == {i \in DOMAIN rows : AtLeast(TotalOf(rows[i]), rk.min_score)}
            kept == {i \in DOMAIN rows : \E j \in DOMAIN R : R[j].article_id = rows[i].id}
        IN  /\ kept \subseteq qualifying
            /\ \A i, j \in DOMAIN R : i # j => R[i].article_id # R[j].article_id
            /\ \A j \in DOMAIN R :
                  \E i \in DOMAIN rows : /\ R[j].article_id = rows[i].id
                                         /\ R[j].total_score = TotalOf(rows[i])
            /\ Len(R) = Min(rk.max_stories, Cardinality(qualifying))
            /\ \A i \in qualifying \ kept :
                  /\ Len(R) = rk.max_stories
                  /\ \A j \in DOMAIN R : DblLessEq(TotalOf(rows[i]), R[j].total_score)
            /\ ( /\ Len(rows) = 3
                 /\ {Thousandths(TotalOf(rows[i])) : i \in DOMAIN rows} = {900, 400, 50}
                 /\ rk.min_score = 100
                 /\ rk.max_stories = 2 )
               => [j \in DOMAIN R |-> Thousandths(R[j].total_score)] = <<900, 400>>

\* the spec's example with the 0.4 article first in the input and the 0.9
\* article after it
C9_Witness ==
    /\ rk.called
    /\ Len(rk.articles) = 3
    /\ Thousandths(TotalOf(rk.articles[1])) = 400
    /\ Thousandths(TotalOf(rk.articles[2])) = 900
    /\ {Thousandths(TotalOf(rk.articles[i])) : i \in DOMAIN rk.articles} = {900, 400, 50}
    /\ rk.min_score = 100
    /\ rk.max_stories = 2
    /\ [j \in DOMAIN rk.ranked_articles |-> Thousandths(rk.ranked_articles[j].total_score)]
          = <<900, 400>>

\* C10: the ranked list is in non-increasing order of total, and selected
\* articles with equal totals keep the relative order they had in the list
\* get_run_articles returned.
C10_StableOrder ==
    rk.called =>
        \A i, j \in DOMAIN rk.ranked_articles :
            i < j =>
                /\ DblLessEq(rk.ranked_articles[j].total_score,
                             rk.ranked_articles[i].total_score)
                /\ rk.ranked_articles[i].total_score = rk.ranked_articles[j].total_score
                      => PosIn(rk.articles, rk.ranked_articles[i].article_id)
                           < PosIn(rk.articles, rk.ranked_articles[j].article_id)

\* two selected articles tie, and the top-ranked article came last in the input
C10_Witness ==
    /\ rk.called
    /\ Len(rk.ranked_articles) = 3
    /\ rk.ranked_articles[2].total_score = rk.ranked_articles[3].total_score
    /\ DblLess(rk.ranked_articles[2].total_score, rk.ranked_articles[1].total_score)
    /\ PosIn(rk.articles, rk.ranked_articles[1].article_id) = 3

\* C11: for every configuration that load accepts and every article, the five
\* component scores and the weighted total of score_article lie in [0,1], so
\* building the ArticleScore does not fail validation.
C11_ScoresInUnitInterval ==
    (sc.phase = "scored" /\ sc.outcome.raised # "AttributeError") =>
        /\ \A f \in DOMAIN sc.outcome.scores :
              /\ DblLessEq(DblZero, sc.outcome.scores[f])
              /\ DblLessEq(sc.outcome.scores[f], DblOne)
        /\ DblLessEq(DblZero, sc.outcome.total)
        /\ DblLessEq(sc.outcome.total, DblOne)
        /\ sc.outcome.raised = ""

\* C12: building the RankingConfig succeeds exactly when the four effective
\* weights (supplied or default) are each in [0,1] and sum to 1.0 within 0.001.
C12_WeightValidation ==
    sc.phase = "loaded" =>
        LET w == EffectiveWeights(sc.raw)
            sum == w.recency_weight + w.source_weight + w.topic_weight + w.novelty_weight
        IN  sc.accepted <=>
                /\ \A f \in DOMAIN w : 0 <= w[f] /\ w[f] <= One
                /\ sum >= One - WeightTolerance
                /\ sum <= One + WeightTolerance

\* C13: score_article does not raise for a per-article data gap.  With the
\* publication date, the body path or file, the outlet or the source category
\* missing, it returns the scores with the neutral value in place: recency 0.5
\* without a date, the topic score of the title alone without a readable body,
\* preference 0.5 without outlet and category.
C13_DataGapsNeverRaise ==
    sc.phase = "scored" =>
        LET a == sc.article
            o == sc.outcome
        IN  /\ o.raised \notin {"AttributeError", "TypeError", "KeyError"}
            /\ a.published_at = None => o.scores.recency = DblHalf
            /\ a.extracted_path \notin DOMAIN files =>
                  o.scores.topic = TopicScorer(ArticleRanker(sc.config, sc.preferences),
                                               a, "")
            /\ (a.outlet \in {NoneStr, ""} /\ sc.source_category \in {NoneStr, ""}) =>
                  o.scores.preference = DblHalf

\* the rows of the loaded window, other than the article itself, that are
\* similar to the article scored
WindowMatches == {i \in DOMAIN sc.recent :
                     /\ sc.recent[i].id # sc.article.id
                     /\ IsSimilar(sc.article, sc.recent[i])}

\* C14: when the article scored by rank_articles has a similar article in the
\* window loaded, its novelty score is 0.1 if that article was first seen at
\* most 1 day ago, 0.3 if more than 1 and at most 3 days ago, 0.5 if more
\* than 3 days ago.
C14_NoveltyTiers ==
    (sc.phase = "scored" /\ sc.outcome.raised # "AttributeError" /\ WindowMatches # {}) =>
        LET first == CHOOSE i \in WindowMatches : \A j \in WindowMatches : i <= j
            age == clock - articles[sc.recent[first].id].first_seen_at
        IN  sc.outcome.scores.novelty =
                IF age <= HoursPerDay THEN Dbl(100)
                ELSE IF age <= 3 * HoursPerDay THEN Dbl(300)
                ELSE DblHalf

\* C15: the show-notes stage reads exactly the articles the ranking stage
\* selected: the articles summarized are those of ranked_articles, at most
\* max_stories of them, in a first run and in a re-run alike.
C15_NotesConsumeRanked ==
    Succeeded(6) =>
        /\ {ctx.notes[i] : i \in DOMAIN ctx.notes}
              = {rk.ranked_articles[j].article_id : j \in DOMAIN rk.ranked_articles}
        /\ Len(ctx.notes) <= params.max_stories

\* C16: rank_articles persists nothing: the call leaves the selection flag and
\* the score payload of every run-article row as they were.
C16_RankerPersistsNothing ==
    [][(~rk.called /\ rk'.called) => run_articles' = run_articles]_vars

\* C17: a generation error is a stage failure.  If the model call failed while
\* the show_notes stage summarized an article, or while the script stage
\* generated the script, that stage is failed with an error recorded, no later
\* stage is started, and run returns false.
C17_GenerationErrorFailsStage ==
    \A k \in ctx.api_failed :
        /\ Failed(k)
        /\ stages[k].error # NoneStr
        /\ \A j \in (k + 1)..NumStages : NotStarted(j)
        /\ pc = "done" => result = "false"

\* C18: after a failure at stage k the report shows the later stages as not
\* started, apart from the failed one: in pipeline_stats.json they carry no
\* error, and the printed summary neither marks them failed nor lists them
\* among the failed stages.
C18_NotStartedReported ==
    (report.written /\ \E k \in 1..NumStages : Failed(k)) =>
        \A j \in 1..NumStages :
            NotStarted(j) =>
                /\ report.stats_file[j].error = NoneStr
                /\ ~report.stats_file[j].success
                /\ report.summary[j].status # "failed"
                /\ StageNames[j] \notin report.failed_stages

\* C19: whenever run returns false, exactly one stage is failed, it is the
\* first stage at which a failure occurred (all stages before it succeeded),
\* its error is the message of the error caught, unchanged, and no other
\* stage has an error.
C19_OneFailedStage ==
    (pc = "done" /\ result = "false") =>
        \E k \in 1..NumStages :
            /\ Failed(k)
            /\ stages[k].error # NoneStr
            /\ stages[k].error = ctx.raised
            /\ \A j \in 1..(k - 1) : Succeeded(j)
            /\ \A j \in 1..NumStages \ {k} : ~Failed(j) /\ stages[j].error = NoneStr

\* C20: with no article linked to the run, rank_articles returns at once a
\* result with total_articles = 0 and no ranked article, without loading the
\* window of recent articles and without writing to storage, and the ranking
\* stage completes as succeeded.
C20_EmptyRanking ==
    /\ [](rk.called /\ rk.articles = <<>> =>
            /\ rk.total_articles = 0
            /\ rk.ranked_articles = <<>>
            /\ ~rk.recent_loaded)
    /\ [][(pc = "body" /\ cur = 5 /\ ctx'.raised = NoneStr /\ rk'.articles = <<>>) =>
            /\ run_articles' = run_articles
            /\ stages'[5].success
            /\ stages'[5].error = NoneStr
            /\ pc' = "start" /\ cur' = 6]_vars

\* the ranking stage has just succeeded on a run with nothing linked to it
C20_Witness ==
    /\ rk.called /\ rk.articles = <<>>
    /\ \A k \in DOMAIN run_articles : k[1] # run_id
    /\ Succeeded(5)
    /\ pc = "start" /\ cur = 6


\* the main configuration is missing, malformed or invalid: a weight outside
\* [0,1], or the four effective weights not summing to 1.0 within 0.001
MainConfigBad(file) ==
    \/ ~file.exists
    \/ ~file.yaml_ok
    \/ LET w == EffectiveWeights(file.ranking)
           sum == w.recency_weight + w.source_weight + w.topic_weight + w.novelty_weight
       IN  ~( /\ \A f \in DOMAIN w : 0 <= w[f] /\ w[f] <= One
              /\ sum >= One - WeightTolerance
              /\ sum <= One + WeightTolerance )

\* the sources file is missing, malformed or holds an invalid entry
SourcesFileBad(file) ==
    \/ ~file.exists
    \/ ~file.yaml_ok
    \/ \E i \in DOMAIN file.entries : file.entries[i] = "invalid"

\* C21: configuration errors are rejected before any stage runs.  When the
\* main configuration or the sources file is missing, malformed or invalid,
\* no stage is ever started and no Run record is created or modified.
C21_ConfigRejectedFirst ==
    (MainConfigBad(sc.main_config) \/ SourcesFileBad(sc.sources_file)) =>
        /\ \A k \in 1..NumStages : NotStarted(k)
        /\ runs = sc.runs0


\* caller p is out of create_run
SessionOver(p) == sessions[p].pc \in {"committed", "raised"}

\* p and q asked for the same date, both existence checks found no record,
\* and neither caller had written when the other made its check
ChecksOverlap(p, q) ==
    /\ sessions[p].pc # "idle" /\ sessions[q].pc # "idle"
    /\ sessions[p].run_date = sessions[q].run_date
    /\ sessions[p].existing = None /\ sessions[q].existing = None
    /\ q \notin sessions[p].wrote_before
    /\ p \notin sessions[q].wrote_before

\* C22: when two invocations for the same new date both make create_run's
\* existence check before either inserts, two Run records for that date
\* exist afterwards: each caller has inserted a record of its own, and the
\* run store has refused neither.
C22_OverlapDuplicates ==
    \A p, q \in SessionIds :
        (p # q /\ ChecksOverlap(p, q) /\ SessionOver(p) /\ SessionOver(q)) =>
            /\ Cardinality(RunsOfDate(runs, sessions[p].run_date)) >= 2
            /\ sessions[p].pc = "committed" /\ sessions[q].pc = "committed"
            /\ sessions[p].inserted /\ sessions[q].inserted
            /\ sessions[p].run_id # sessions[q].run_id
            /\ runs[sessions[p].run_id].run_date = sessions[p].run_date
            /\ runs[sessions[q].run_id].run_date = sessions[p].run_date

\* both callers checked an empty table before either inserted, and both
\* have committed: the date has two records
C22_Witness ==
    /\ ChecksOverlap(1, 2)
    /\ sessions[1].wrote_before = {} /\ sessions[2].wrote_before = {}
    /\ SessionOver(1) /\ SessionOver(2)
    /\ Cardinality(RunsOfDate(runs, sessions[1].run_date)) = 2


\* the rows of the window handed to the novelty scorer that have another id
\* than the candidate and are similar to it
NoveltyMatches ==
    {i \in DOMAIN sc.context.recent_articles :
        /\ sc.context.recent_articles[i].id # sc.article.id
        /\ IsSimilar(sc.article, sc.context.recent_articles[i])}

\* the rows of the window with another id and the candidate's canonical URL
SameUrlRows ==
    {i \in DOMAIN sc.context.recent_articles :
        /\ sc.context.recent_articles[i].id # sc.article.id
        /\ sc.context.recent_articles[i].canonical_url = sc.article.canonical_url}

\* row i of the window was first seen at most one day before now
SeenWithinOneDay(i) ==
    /\ "first_seen_at" \in DOMAIN sc.context.recent_articles[i]
    /\ clock - sc.context.recent_articles[i].first_seen_at <= HoursPerDay

\* the window is in the order get_recent_articles returns: latest first
LatestFirst(w) ==
    \A i, j \in DOMAIN w :
        (i < j /\ "first_seen_at" \in DOMAIN w[i] /\ "first_seen_at" \in DOMAIN w[j])
            => w[i].first_seen_at >= w[j].first_seen_at

\* C23 as stated: the novelty score is 1.0 exactly when no window is
\* supplied or no row of the window with another id is similar to the
\* candidate; otherwise it is at most 0.5 and is the score the first similar
\* row alone would give; and a candidate with the canonical URL of another
\* row of the window gets at most 0.5, and 0.1 whenever that row was first
\* seen at most a day ago, wherever the row stands in the window.
C23_AsStated ==
    sc.phase = "novelty_scored" =>
        LET w == sc.context.recent_articles
            first == CHOOSE i \in NoveltyMatches : \A j \in NoveltyMatches : i <= j
        IN  /\ sc.score = DblOne <=> (~sc.context.supplied \/ NoveltyMatches = {})
            /\ NoveltyMatches # {} =>
                  /\ DblLessEq(sc.score, DblHalf)
                  /\ sc.score = NoveltyScorer(sc.article, <<w[first]>>, clock)
            /\ SameUrlRows # {} => DblLessEq(sc.score, DblHalf)
            /\ \A i \in SameUrlRows : SeenWithinOneDay(i) => sc.score = Dbl(100)

\* C23, amended: the novelty score is 1.0 exactly when no window is supplied
\* or no row of the window with another id is similar to the candidate;
\* otherwise it is at most 0.5 and is the score the first similar row alone
\* would give.  A candidate with the canonical URL of another row of the
\* window gets at most 0.5, and 0.1 when that row was first seen at most a
\* day ago and is the first similar row of the window, or the window is
\* ordered latest first.
C23_NoveltyMatchRule ==
    sc.phase = "novelty_scored" =>
        LET w == sc.context.recent_articles
            first == CHOOSE i \in NoveltyMatches : \A j \in NoveltyMatches : i <= j
        IN  /\ sc.score = DblOne <=> (~sc.context.supplied \/ NoveltyMatches = {})
            /\ NoveltyMatches # {} =>
                  /\ DblLessEq(sc.score, DblHalf)
                  /\ sc.score = NoveltyScorer(sc.article, <<w[first]>>, clock)
            /\ SameUrlRows # {} => DblLessEq(sc.score, DblHalf)
            /\ \A i \in SameUrlRows :
                  (SeenWithinOneDay(i) /\ (i = first \/ LatestFirst(w)))
                      => sc.score = Dbl(100)

\* the candidate's own row comes first, then a similar title seen four days
\* ago, then a row with the candidate's URL seen within the day: 0.5
C23_Witness ==
    /\ sc.phase = "novelty_scored"
    /\ Len(sc.context.recent_articles) = 3
    /\ sc.context.recent_articles[1].id = sc.article.id
    /\ NoveltyMatches = {2, 3}
    /\ SameUrlRows = {3}
    /\ SeenWithinOneDay(3)
    /\ sc.score = DblHalf


\* 2^-50: what the roundings of a few float operations on values up to 1
\* stay below
FloatRounding == [neg |-> FALSE, exp |-> -50 - 52, man |-> DblOne.man]

\* the number of words of a text that are, in lower case, a keyword in lower case
Occurrences(text, keywords) ==
    Cardinality({i \in DOMAIN Split(text) : Lower(Split(text)[i]) \in LowerAll(keywords)})

\* C24: with b = 2 * (boost matches in the title) + (boost matches in the
\* body) and s likewise for the suppress keywords, the topic score is
\* clamp(0.5 + 0.5 * min(1, b/10) - 0.5 * min(1, s/5), 0, 1), up to the
\* rounding of float arithmetic (one part in 2^50); it is 0.5 when no keyword
\* is configured or none matches, and 0.75 for two title matches and one body
\* match of a boost keyword without suppression.
C24_TopicArithmetic ==
    sc.phase = "topic_scored" =>
        LET b == 2 * Occurrences(sc.title, sc.boost_keywords)
                   + Occurrences(sc.content, sc.boost_keywords)
            s == 2 * Occurrences(sc.title, sc.suppress_keywords)
                   + Occurrences(sc.content, sc.suppress_keywords)
            \* the value of the formula, in twentieths
            raw == 10 + Min(10, b) - 2 * Min(5, s)
            exact == DblRatio(Max(0, Min(20, raw)), 20)
        IN  /\ DblLess(DblAbs(DblSub(sc.score, exact)), FloatRounding)
            /\ (sc.boost_keywords = {} /\ sc.suppress_keywords = {}) => sc.score = DblHalf
            /\ (b = 0 /\ s = 0) => sc.score = DblHalf
            /\ ( /\ Occurrences(sc.title, sc.boost_keywords) = 2
                 /\ Occurrences(sc.content, sc.boost_keywords) = 1
                 /\ s = 0 ) => sc.score = Dbl(750)

\* "gpt" twice in the title and once in the body, which also carry words of
\* no configured keyword: 0.75
C24_Witness ==
    /\ sc.phase = "topic_scored"
    /\ sc.boost_keywords = {"GPT"}
    /\ sc.suppress_keywords = {}
    /\ sc.title = Words(2, 1)
    /\ sc.content = Words(1, 2)
    /\ sc.score = Dbl(750)

\* C25: during fetch_all_feeds at most 5 feed fetches, and during
\* fetch_all_articles at most 3 article fetches, are in flight at any
\* instant; every submitted fetch runs to completion; the failure of one
\* item gives a result with success false for that item, without raising
\* and without cancelling the others; and the result list has one entry per
\* input, in input order.
C25_BoundedFetch ==
    /\ [](Cardinality(InFlight(fetch)) <= max_concurrent(fetch.kind))
    /\ [](/\ fetch.outcome \notin {"raising", "raised"}
          /\ \A i \in DOMAIN fetch.task : fetch.task[i] \notin {"raised", "cancelled"})
    /\ [](fetch.outcome = "returned" =>
            /\ Len(fetch.results) = Len(fetch.inputs)
            /\ \A i \in DOMAIN fetch.results :
                  /\ fetch.results[i].input = i
                  /\ fetch.task[i] = "failed" => ~fetch.results[i].success)
    /\ <>(fetch.outcome = "returned")

\* no two stored articles share a canonical URL or a content hash
UniqueArticles(arts) ==
    \A i, j \in {k \in DOMAIN arts : arts[k] # ConsumedArticleId} :
        i # j => /\ arts[i].canonical_url # arts[j].canonical_url
                 /\ arts[i].content_hash # arts[j].content_hash

\* the incoming article matches the stored row on either key
MatchesRow(a, row) ==
    /\ row # ConsumedArticleId
    /\ \/ row.canonical_url = a.canonical_url
       \/ row.content_hash = a.content_hash

\* the articles of a batch that reach upsert_article
Processed(batch) ==
    {i \in DOMAIN batch :
        batch[i].fetch_success /\ SourceIdFor(StoreSourceMap, batch[i]) # None}

\* what a process_articles call does to the store, `incoming` being the
\* articles of the batch the statement is about: the stored rows stay and
\* change in nothing but last_seen_at, and that only for a match; and when
\* the call returns, the rows added are the ones counted as new, and each
\* article of `incoming` that matches a stored row adds no row, is counted
\* as a duplicate and is linked to the run of the call
DedupStep(incoming) ==
    invocations' = invocations + 1 =>
        LET batch == sc'.batch
            stats == sc'.stats
            matched == {i \in incoming :
                           \E r \in DOMAIN articles : MatchesRow(batch[i], articles[r])}
        IN  /\ Len(articles') >= Len(articles)
            /\ \A r \in DOMAIN articles :
                  /\ articles'[r] = [articles[r] EXCEPT
                                        !.last_seen_at = articles'[r].last_seen_at]
                  /\ articles'[r].last_seen_at # articles[r].last_seen_at =>
                        \E i \in incoming : MatchesRow(batch[i], articles[r])
            /\ \A k \in DOMAIN run_articles : run_articles'[k] = run_articles[k]
            /\ sc'.phase = "stored" =>
                  /\ Len(articles') - Len(articles) = stats.new
                  /\ stats.duplicates >= Cardinality(matched)
                  /\ stats.new <= Cardinality(incoming \ matched)
                  /\ \A i \in matched :
                        \E r \in DOMAIN articles' :
                            /\ MatchesRow(batch[i], articles'[r])
                            /\ <<sc'.run_id, r>> \in DOMAIN run_articles'

\* C26 as stated: no two stored articles ever share a canonical URL or a
\* content hash, and in every process_articles call every incoming article
\* that matches a stored one on either key creates no row, is counted as a
\* duplicate and is linked to the run of the call, while the stored articles
\* change in nothing but their last-seen timestamp.
C26_AsStated ==
    /\ [](UniqueArticles(articles))
    /\ [][DedupStep(DOMAIN sc'.batch)]_vars

\* C26, amended: no two stored articles ever share a canonical URL or a
\* content hash, and in every process_articles call an incoming article that
\* was fetched successfully, has a source in the source_map and matches a
\* stored article on either key creates no row, is counted as a duplicate
\* and is linked to the run of the call, while the stored articles change in
\* nothing but their last-seen timestamp; each of these articles is counted
\* as new or as a duplicate.
C26_DedupStorage ==
    /\ [](UniqueArticles(articles))
    /\ [][DedupStep(Processed(sc'.batch))]_vars
    /\ [][(invocations' = invocations + 1 /\ sc'.phase = "stored") =>
            sc'.stats.new + sc'.stats.duplicates = Cardinality(Processed(sc'.batch))]_vars

\* a batch of one fetched article that has the URL of one stored article and
\* the content hash of the other: a duplicate, linked to the run, no row added
C26_Witness ==
    /\ sc.phase = "stored"
    /\ Len(articles) = 2
    /\ Len(sc.batch) = 1
    /\ Processed(sc.batch) = {1}
    /\ sc.batch[1].canonical_url = articles[1].canonical_url
    /\ sc.batch[1].content_hash = articles[2].content_hash
    /\ sc.stats.duplicates = 1 /\ sc.stats.new = 0
    /\ \E r \in DOMAIN articles : <<sc.run_id, r>> \in DOMAIN run_articles

\* the stage is in one of the four states of the lifecycle, a succeeded stage
\* with an end time and no error, a failed one with an end time and a message
InLifecycle(st) ==
    \/ st = NewStage
    \/ /\ st.start_time # None /\ st.end_time = None
       /\ ~st.success /\ st.error = NoneStr
    \/ /\ st.start_time # None /\ st.end_time # None
       /\ st.success /\ st.error = NoneStr
    \/ /\ st.start_time # None /\ st.end_time # None
       /\ ~st.success /\ st.error \notin {NoneStr, ""}

\* C27: within one execution every stage is not started, running, succeeded
\* (end time, no error) or failed (end time, non-empty error); a stage that
\* has not started stays so or starts, a running stage stays so or ends
\* through exactly one of complete and fail, and an ended stage never
\* changes again.
C27_StageLifecycle ==
    /\ [](\A k \in 1..NumStages : InLifecycle(stages[k]))
    /\ [][invocations' = invocations =>
            \A k \in 1..NumStages :
                \/ stages'[k] = stages[k]
                \/ /\ stages[k] = NewStage
                   /\ stages'[k] = StageStart(stages[k], StartReading(k))
                \/ /\ Running(k)
                   /\ \/ stages'[k] = StageComplete(stages[k], EndReading(k))
                      \/ \E e \in ErrorMessages \cup {stages'[k].error} :
                            /\ e \notin {NoneStr, ""}
                            /\ stages'[k] = StageFail(stages[k], EndReading(k), e)]_vars

\* the statuses of a Run record
RunStatuses == {"running", "success", "failed"}

\* C28: every Run record has the status running, success or failed and has
\* no finished_at exactly when it is running; a record is created running,
\* and its status changes only from running to success or failed, by the
\* update at the end of run, or from any status to running, by create_run.
C28_RunRecord ==
    /\ [](\A i \in DOMAIN runs :
             /\ runs[i].status \in RunStatuses
             /\ runs[i].finished_at = None <=> runs[i].status = "running")
    /\ [][/\ Len(runs') >= Len(runs)
          /\ \A i \in DOMAIN runs' \ DOMAIN runs :
                /\ runs'[i].status = "running"
                /\ pc = "idle"
          /\ \A i \in DOMAIN runs :
                runs'[i].status # runs[i].status =>
                    \/ /\ runs[i].status = "running"
                       /\ runs'[i].status \in {"success", "failed"}
                       /\ pc = "update" /\ i = run_id
                    \/ /\ runs'[i].status = "running"
                       /\ pc = "idle" /\ i = run_id']_vars

\* the only record was created by the first run, set back to running by the
\* second and the third, and ended failed
C28_Witness ==
    /\ Len(runs) = 1
    /\ invocations = 3
    /\ runs[1].status = "failed"
    /\ runs[1].finished_at # None
    /\ runs[1].started_at > 1

\* the collected items that came from feed f
ItemsOfFeed(items, f) == {i \in DOMAIN items : items[i][1] = f}

\* no feed result carries an item
NothingCollected(feed_results) ==
    \A i \in DOMAIN feed_results :
        ~feed_results[i].success \/ feed_results[i].items = <<>>

\* C29: when the rss stage has succeeded, between 1 and max_items items are
\* passed on and at most max(1, max_items div n) of them come from one feed;
\* when the stage has ended with nothing to collect (no enabled source, or
\* every feed failed or empty) it has failed, and after a failed rss stage
\* the articles stage is never started.
C29_ItemCap ==
    /\ Succeeded(2) =>
          /\ ctx.enabled >= 1
          /\ Len(ctx.all_items) >= 1
          /\ Len(ctx.all_items) <= params.max_items
          /\ \A f \in 1..ctx.enabled :
                Cardinality(ItemsOfFeed(ctx.all_items, f))
                    <= Max(1, params.max_items \div ctx.enabled)
    /\ (stages[2].end_time # None /\ NothingCollected(sc.feed_results)) => Failed(2)
    /\ Failed(2) => NotStarted(3)

\* two feeds of three items each under --max-items 3: one item per feed is
\* taken, and the articles stage has started on the two items
C29_Witness ==
    /\ Succeeded(2) /\ Started(3)
    /\ params.max_items = 3 /\ ctx.enabled = 2
    /\ \A i \in 1..2 : Len(sc.feed_results[i].items) = 3
    /\ ctx.all_items = << <<1, 1>>, <<2, 1>> >>

\* C30: when rank_articles has scored an article of the run, the category in
\* the scoring context is the configured category of the article's source,
\* and an article whose source category is in the preferred-category list of
\* the configuration has received the preference bonus of 0.25.
C30_CategoryReachesScorers ==
    sc.phase = "ranked" =>
        /\ sc.source_category = sc.source.category
        /\ sc.source.category \in DictGet(sc.section, "preferred_categories", {}) =>
              DblLessEq(Dbl(750), sc.preference_score)

====
